---------------------------- MODULE Spec2Model ----------------------------
(***************************************************************************)
(* Model of add-gl-quotes-to-tsv-files-cli.js (src/unnamed/part_002): the  *)
(* selection predicate, the merge of previous GL quotes, the partial       *)
(* regeneration protocol and the per-file orchestration of main.           *)
(*                                                                         *)
(* Text is a sequence of tokens.  "\t" and "\n" are the two separators the *)
(* program splits on; every other token is an indivisible piece of text    *)
(* (a word, a blank, the QUOTE_NOT_FOUND marker).  A field is the sequence *)
(* of tokens between two separators, so trim(), includes() and the         *)
(* split/join round trip are computed and not assumed.                     *)
(***************************************************************************)
EXTENDS Integers, Sequences, FiniteSets, TLC

(***************************************************************************)
(* Strings                                                                 *)
(***************************************************************************)
TAB == "\t"
NL == "\n"
SP == " "
QNF == "QUOTE_NOT_FOUND"
\* '␟', the separator makeRowKey joins the key parts with
KEYSEP == "<U+241F>"
\* the JavaScript value undefined, as an array element or a missing field
UNDEF == <<"<undefined>">>

Min(a, b) == IF a < b THEN a ELSE b

\* String.prototype.split(sep) on a token sequence
RECURSIVE SplitOn(_, _)
SplitOn(s, sep) ==
    IF \A i \in 1..Len(s) : s[i] # sep
    THEN <<s>>
    ELSE LET k == CHOOSE i \in 1..Len(s) :
                      s[i] = sep /\ \A j \in 1..(i - 1) : s[j] # sep
         IN  <<SubSeq(s, 1, k - 1)>> \o SplitOn(SubSeq(s, k + 1, Len(s)), sep)

\* Array.prototype.join(sep): undefined elements and holes render as ''
RECURSIVE JoinWith(_, _)
JoinWith(parts, sep) ==
    IF Len(parts) = 0 THEN <<>>
    ELSE LET h == IF parts[1] = UNDEF THEN <<>> ELSE parts[1]
         IN  IF Len(parts) = 1 THEN h
             ELSE h \o <<sep>> \o JoinWith(Tail(parts), sep)

\* text.split('\n').map(line => line.split('\t'))
ParseTSV(text) ==
    LET lines == SplitOn(text, NL)
    IN  [i \in 1..Len(lines) |-> SplitOn(lines[i], TAB)]

\* rows.map(row => row.join('\t')).join('\n')
ToTSV(rows) ==
    JoinWith([i \in 1..Len(rows) |-> JoinWith(rows[i], TAB)], NL)

\* array.indexOf(x): 0-based, -1 when absent
IndexOf(arr, x) ==
    IF \E i \in 1..Len(arr) : arr[i] = x
    THEN (CHOOSE i \in 1..Len(arr) :
              arr[i] = x /\ \A j \in 1..(i - 1) : arr[j] # x) - 1
    ELSE -1

\* row[i] with a 0-based (possibly -1 or out of range) index
At(row, i) == IF i >= 0 /\ i < Len(row) THEN row[i + 1] ELSE UNDEF

\* truthiness of v?.trim()
TrimTruthy(v) == v # UNDEF /\ \E i \in 1..Len(v) : v[i] \notin {SP, TAB}

\* v.includes('QUOTE_NOT_FOUND') (v?.includes(...) is undefined, falsy, on undefined)
IncludesQNF(v) == v # UNDEF /\ \E i \in 1..Len(v) : v[i] = QNF

\* v.trim(): white space at both ends removed
RECURSIVE Trim(_)
Trim(v) ==
    IF Len(v) = 0 THEN v
    ELSE IF v[1] \in {SP, TAB} THEN Trim(Tail(v))
    ELSE IF v[Len(v)] \in {SP, TAB} THEN Trim(SubSeq(v, 1, Len(v) - 1))
    ELSE v

\* v || ''
OrEmpty(v) == IF v = UNDEF THEN <<>> ELSE v

\* v ?? ''
NullishEmpty(v) == IF v = UNDEF THEN <<>> ELSE v

\* mutation: the two values are put at the end of the array
Splice2_atEnd(row, pos, a, b) == row \o <<a, b>>

\* row.splice(pos, 0, a, b): pos is clamped to the length of the array
Splice2(row, pos, a, b) ==
    LET p == Min(pos, Len(row))
    IN  SubSeq(row, 1, p) \o <<a, b>> \o SubSeq(row, p + 1, Len(row))

\* mutation: nothing is pushed
PadTo_none(row, n) == row

\* while (row.length < n) row.push('')
PadTo(row, n) ==
    IF Len(row) >= n THEN row
    ELSE row \o [k \in 1..(n - Len(row)) |-> <<>>]

\* row[i] = v for i >= 0: an index past the end leaves holes
SetAt(row, i, v) ==
    IF i < Len(row) THEN [row EXCEPT ![i + 1] = v]
    ELSE row \o [k \in 1..(i - Len(row)) |-> UNDEF] \o <<v>>

(***************************************************************************)
(* Column lookup                                                           *)
(***************************************************************************)
Col(name) == <<name>>

\* indexOf('Quote'), else indexOf('OrigQuote'), else indexOf('OrigWords')
QuoteIndexOf(headers) ==
    IF IndexOf(headers, Col("Quote")) # -1 THEN IndexOf(headers, Col("Quote"))
    ELSE IF IndexOf(headers, Col("OrigQuote")) # -1
         THEN IndexOf(headers, Col("OrigQuote"))
         ELSE IndexOf(headers, Col("OrigWords"))

getIndexBundle(headers) ==
    [ref   |-> IndexOf(headers, Col("Reference")),
     id    |-> IndexOf(headers, Col("ID")),
     quote |-> QuoteIndexOf(headers),
     occ   |-> IndexOf(headers, Col("Occurrence")),
     glq   |-> IndexOf(headers, Col("GLQuote")),
     glo   |-> IndexOf(headers, Col("GLOccurrence"))]

\* the key without the occurrence
makeRowKey_withoutOccurrence(row, idx) ==
    LET p1 == IF idx.ref >= 0 THEN <<NullishEmpty(At(row, idx.ref))>> ELSE <<>>
        p2 == IF idx.id >= 0 THEN <<NullishEmpty(At(row, idx.id))>> ELSE <<>>
        p3 == IF idx.quote >= 0 THEN <<NullishEmpty(At(row, idx.quote))>> ELSE <<>>
    IN  JoinWith(p1 \o p2 \o p3, KEYSEP)

makeRowKey(row, idx) ==
    LET p1 == IF idx.ref >= 0 THEN <<NullishEmpty(At(row, idx.ref))>> ELSE <<>>
        p2 == IF idx.id >= 0 THEN <<NullishEmpty(At(row, idx.id))>> ELSE <<>>
        p3 == IF idx.quote >= 0 THEN <<NullishEmpty(At(row, idx.quote))>> ELSE <<>>
        p4 == IF idx.occ >= 0 THEN <<NullishEmpty(At(row, idx.occ))>> ELSE <<>>
    IN  JoinWith(p1 \o p2 \o p3 \o p4, KEYSEP)


(***************************************************************************)
(* addEmptyGLQuoteColumns                                                  *)
(***************************************************************************)
addEmptyGLQuoteColumns(tsvContent) ==
    LET rows == ParseTSV(tsvContent)
        headers == rows[1]
        occurrenceIndex == IndexOf(headers, Col("Occurrence"))
        newHeaders == Splice2(headers, occurrenceIndex + 1,
                              Col("GLQuote"), Col("GLOccurrence"))
        newRow(i) == IF Len(rows[i]) > 1
                     THEN Splice2(rows[i], occurrenceIndex + 1, <<>>, <<>>)
                     ELSE PadTo(rows[i], Len(newHeaders))
    IN  IF occurrenceIndex = -1 THEN tsvContent
        ELSE ToTSV([i \in 1..Len(rows) |->
                        IF i = 1 THEN newHeaders ELSE newRow(i)])

(***************************************************************************)
(* mergePreviousGLQuotes                                                   *)
(***************************************************************************)
\* a count the returned object does not carry (undefined)
NoCount == -1

\* mutation: the header row is not counted
totalDataRowsOf_dataOnly(rows) ==
    Cardinality({i \in 2..Len(rows) : Len(rows[i]) > 1})

\* rows.filter(r => r.length > 1).length: the header row is counted too
totalDataRowsOf(rows) == Cardinality({i \in 1..Len(rows) : Len(rows[i]) > 1})

\* mutation: an Occurrence of "0" is not excluded
rowMissingExisting_noZero(row, quoteIndex, occurrenceIndex, glQuoteIndex) ==
    /\ TrimTruthy(At(row, quoteIndex))
    /\ TrimTruthy(At(row, occurrenceIndex))
    /\ \/ ~TrimTruthy(At(row, glQuoteIndex))
       \/ IncludesQNF(At(row, glQuoteIndex))
       \/ IncludesQNF(At(row, quoteIndex))

\* mutation: GLQuote is not looked at
rowMissingExisting_everyEligible(row, quoteIndex, occurrenceIndex, glQuoteIndex) ==
    /\ TrimTruthy(At(row, quoteIndex))
    /\ TrimTruthy(At(row, occurrenceIndex))
    /\ At(row, occurrenceIndex) # <<"0">>

\* lines 460-462: the test of the loop over a file that already has GLQuote
rowMissingExisting(row, quoteIndex, occurrenceIndex, glQuoteIndex) ==
    LET quoteHasQNF == IncludesQNF(At(row, quoteIndex))
        glqMissingOrQNF == \/ ~TrimTruthy(At(row, glQuoteIndex))
                           \/ IncludesQNF(At(row, glQuoteIndex))
    IN  /\ TrimTruthy(At(row, quoteIndex))
        /\ TrimTruthy(At(row, occurrenceIndex))
        /\ At(row, occurrenceIndex) # <<"0">>
        /\ (glqMissingOrQNF \/ quoteHasQNF)

\* the test that counts a row only for the sentinel in its quote
rowMissingAdded_sentinelOnly(row, quoteIndex, occurrenceIndex, glQuoteIndex) ==
    /\ Len(row) > 1
    /\ TrimTruthy(At(row, quoteIndex))
    /\ TrimTruthy(At(row, occurrenceIndex))
    /\ At(row, occurrenceIndex) # <<"0">>
    /\ IncludesQNF(At(row, quoteIndex))

\* lines 492, 528: the test applied after addEmptyGLQuoteColumns
rowMissingAdded(row, quoteIndex, occurrenceIndex, glQuoteIndex) ==
    /\ Len(row) > 1
    /\ TrimTruthy(At(row, quoteIndex))
    /\ TrimTruthy(At(row, occurrenceIndex))
    /\ At(row, occurrenceIndex) # <<"0">>
    /\ \/ (\/ ~TrimTruthy(At(row, glQuoteIndex))
           \/ IncludesQNF(At(row, glQuoteIndex)))
       \/ IncludesQNF(At(row, quoteIndex))

\* lines 629-631: the test of the count after the merge
rowMissingMerged(r, quoteIdx, occurrenceIdx, glQuoteIdx) ==
    LET quoteHasQNF == IncludesQNF(At(r, quoteIdx))
        glqMissingOrQNF == \/ ~TrimTruthy(At(r, glQuoteIdx))
                           \/ IncludesQNF(At(r, glQuoteIdx))
    IN  /\ TrimTruthy(At(r, quoteIdx))
        /\ TrimTruthy(At(r, occurrenceIdx))
        /\ At(r, occurrenceIdx) # <<"0">>
        /\ (glqMissingOrQNF \/ quoteHasQNF)

\* mutation: the two columns are never found
hasGLColumns_never(tsvContent) == FALSE

\* lines 442-446: hasGLQuote && hasGLOccurrence
hasGLColumns(tsvContent) ==
    LET currentHeaders == ParseTSV(tsvContent)[1]
    IN  /\ IndexOf(currentHeaders, Col("GLQuote")) # -1
        /\ IndexOf(currentHeaders, Col("GLOccurrence")) # -1

\* lines 446-475: the file already has both columns
mergeExisting(tsvContent) ==
    LET currentRows == ParseTSV(tsvContent)
        currentHeaders == currentRows[1]
        glQuoteIndex == IndexOf(currentHeaders, Col("GLQuote"))
        quoteIndex == QuoteIndexOf(currentHeaders)
        occurrenceIndex == IndexOf(currentHeaders, Col("Occurrence"))
        missing ==
            IF glQuoteIndex >= 0
            THEN Cardinality({i \in 2..Len(currentRows) :
                     /\ Len(currentRows[i]) > 1
                     /\ rowMissingExisting(currentRows[i], quoteIndex,
                                           occurrenceIndex, glQuoteIndex)})
            ELSE 0
    IN  [kind |-> "object", output |-> tsvContent, missingCount |-> missing,
         matchedCount |-> 0, totalDataRows |-> totalDataRowsOf(currentRows)]

\* the count of lines 486-493 and 522-529 over the output of addEmptyGLQuoteColumns
missingAfterAdd(out) ==
    LET rows == ParseTSV(out)
        glQuoteIndex == IndexOf(rows[1], Col("GLQuote"))
        occurrenceIndex == IndexOf(rows[1], Col("Occurrence"))
        quoteIndex == QuoteIndexOf(rows[1])
    IN  IF glQuoteIndex >= 0
        THEN Cardinality({i \in 2..Len(rows) :
                 rowMissingAdded(rows[i], quoteIndex, occurrenceIndex, glQuoteIndex)})
        ELSE 0

\* lines 479-497: getPreviousGLQuotes gave nothing
mergeNoPrevious(tsvContent) ==
    LET out == addEmptyGLQuoteColumns(tsvContent)
    IN  [kind |-> "object", output |-> out, missingCount |-> missingAfterAdd(out),
         matchedCount |-> 0, totalDataRows |-> totalDataRowsOf(ParseTSV(out))]

\* the comparison without the quote and the occurrence
rowsMatch_refAndId(currentRow, prevRow, cur, prev) ==
    /\ cur.ref >= 0 /\ prev.ref >= 0
    /\ At(currentRow, cur.ref) = At(prevRow, prev.ref)
    /\ cur.id >= 0 /\ prev.id >= 0
    /\ At(currentRow, cur.id) = At(prevRow, prev.id)

\* lines 577-592: the comparison of a current row with a previous row
rowsMatch(currentRow, prevRow, cur, prev) ==
    /\ cur.ref >= 0 /\ prev.ref >= 0
    /\ At(currentRow, cur.ref) = At(prevRow, prev.ref)
    /\ cur.id >= 0 /\ prev.id >= 0
    /\ At(currentRow, cur.id) = At(prevRow, prev.id)
    /\ cur.quote >= 0 /\ prev.quote >= 0
    /\ At(currentRow, cur.quote) = At(prevRow, prev.quote)
    /\ cur.occ >= 0 /\ prev.occ >= 0
    /\ At(currentRow, cur.occ) = At(prevRow, prev.occ)

\* lines 571-596: index (1-based, in previousRows) of the first match, 0 if none
matchedPrevRow(currentRow, previousRows, cur, prev) ==
    LET hits == {j \in 2..Len(previousRows) :
                    /\ Len(previousRows[j]) > 1
                    /\ rowsMatch(currentRow, previousRows[j], cur, prev)}
    IN  IF hits = {} THEN 0
        ELSE CHOOSE j \in hits : \A k \in hits : j <= k

\* lines 499-641: a previous file was found
mergeWithPrevious(tsvContent, previousContent) ==
    LET currentRows == ParseTSV(tsvContent)
        currentHeaders == currentRows[1]
        previousRows == ParseTSV(previousContent)
        previousHeaders == previousRows[1]
        prev == getIndexBundle(previousHeaders)
        cur == getIndexBundle(currentHeaders)
        newHeaders == Splice2(currentHeaders, cur.occ + 1,
                              Col("GLQuote"), Col("GLOccurrence"))
        match(i) == matchedPrevRow(currentRows[i], previousRows, cur, prev)
        glQuoteValue(i) ==
            IF match(i) # 0 THEN OrEmpty(At(previousRows[match(i)], prev.glq))
            ELSE <<>>
        glOccurrenceValue(i) ==
            IF match(i) # 0 THEN OrEmpty(At(previousRows[match(i)], prev.glo))
            ELSE <<>>
        newRow(i) ==
            IF Len(currentRows[i]) <= 1
            THEN PadTo(currentRows[i], Len(newHeaders))
            ELSE PadTo(Splice2(currentRows[i], cur.occ + 1,
                               glQuoteValue(i), glOccurrenceValue(i)),
                       Len(newHeaders))
        newRows == [i \in 1..Len(currentRows) |->
                        IF i = 1 THEN newHeaders ELSE newRow(i)]
        matchedCount ==
            Cardinality({i \in 2..Len(currentRows) :
                /\ Len(currentRows[i]) > 1
                /\ match(i) # 0
                /\ (glQuoteValue(i) # <<>> \/ glOccurrenceValue(i) # <<>>)})
        glQuoteIdx == IndexOf(newHeaders, Col("GLQuote"))
        occurrenceIdx == IndexOf(newHeaders, Col("Occurrence"))
        quoteIdx == QuoteIndexOf(newHeaders)
        missingCount ==
            IF glQuoteIdx >= 0
            THEN Cardinality({i \in 2..Len(newRows) :
                     /\ Len(newRows[i]) > 1
                     /\ rowMissingMerged(newRows[i], quoteIdx, occurrenceIdx,
                                         glQuoteIdx)})
            ELSE 0
    IN  IF prev.glq = -1 \/ prev.glo = -1
        THEN \* lines 517-531: { output, missingCount } only
             LET out == addEmptyGLQuoteColumns(tsvContent)
             IN  [kind |-> "object", output |-> out,
                  missingCount |-> missingAfterAdd(out),
                  matchedCount |-> NoCount, totalDataRows |-> NoCount]
        ELSE IF cur.occ = -1
        THEN \* lines 545-548: a string is returned, not an object
             [kind |-> "string", output |-> addEmptyGLQuoteColumns(tsvContent),
              missingCount |-> NoCount, matchedCount |-> NoCount,
              totalDataRows |-> NoCount]
        ELSE [kind |-> "object", output |-> ToTSV(newRows),
              missingCount |-> missingCount, matchedCount |-> matchedCount,
              totalDataRows |-> totalDataRowsOf(newRows)]

(***************************************************************************)
(* Partial regeneration: buildPartialTSVForMissing, mergePartialBack and   *)
(* the recount of main                                                     *)
(***************************************************************************)
\* the test without its second alternative, the sentinel in the quote field
needsPartial_withoutSentinel(r, idx) ==
    LET quoteText == IF idx.quote >= 0 THEN OrEmpty(At(r, idx.quote)) ELSE <<>>
        occText == IF idx.occ >= 0 THEN OrEmpty(At(r, idx.occ)) ELSE <<>>
        glqText == IF idx.glq >= 0 THEN OrEmpty(At(r, idx.glq)) ELSE <<>>
    IN  /\ TrimTruthy(quoteText)
        /\ TrimTruthy(occText)
        /\ occText # <<"0">>
        /\ (~TrimTruthy(glqText) \/ IncludesQNF(glqText))

\* lines 701-707: the test buildPartialTSVForMissing filters the rows with
needsPartial(r, idx) ==
    LET quoteText == IF idx.quote >= 0 THEN OrEmpty(At(r, idx.quote)) ELSE <<>>
        occText == IF idx.occ >= 0 THEN OrEmpty(At(r, idx.occ)) ELSE <<>>
        glqText == IF idx.glq >= 0 THEN OrEmpty(At(r, idx.glq)) ELSE <<>>
    IN  \/ /\ TrimTruthy(quoteText)
           /\ TrimTruthy(occText)
           /\ occText # <<"0">>
           /\ (~TrimTruthy(glqText) \/ IncludesQNF(glqText))
        \/ IncludesQNF(quoteText)

\* lines 910-916: the test of the recount after mergePartialBack
needsRecount(r, idxAfter) ==
    LET quoteText == IF idxAfter.quote >= 0
                     THEN OrEmpty(At(r, idxAfter.quote)) ELSE <<>>
        occText == IF idxAfter.occ >= 0 THEN OrEmpty(At(r, idxAfter.occ)) ELSE <<>>
        glqText == IF idxAfter.glq >= 0 THEN OrEmpty(At(r, idxAfter.glq)) ELSE <<>>
    IN  \/ /\ TrimTruthy(quoteText)
           /\ TrimTruthy(occText)
           /\ occText # <<"0">>
           /\ (~TrimTruthy(glqText) \/ IncludesQNF(glqText))
        \/ IncludesQNF(quoteText)

\* the elements of a sequence that satisfy Keep, in order
RECURSIVE SelectRows(_, _)
SelectRows(rows, keep) ==
    IF Len(rows) = 0 THEN <<>>
    ELSE (IF keep[1] THEN <<rows[1]>> ELSE <<>>)
         \o SelectRows(Tail(rows), Tail(keep))

\* lines 684-693: the rows buildPartialTSVForMissing works on
partialSourceRows(fullTSV) ==
    LET lines == SplitOn(fullTSV, NL)
        kept == SelectRows(lines, [i \in 1..Len(lines) |-> TrimTruthy(lines[i])])
        rows == [i \in 1..Len(kept) |-> SplitOn(kept[i], TAB)]
        idx == getIndexBundle(rows[1])
    IN  IF idx.glq = -1 \/ idx.glo = -1
        THEN ParseTSV(addEmptyGLQuoteColumns(fullTSV))
        ELSE rows

\* line 713: the descriptors kept for the debug output
MaxDescriptors == 10

\* lines 714-718: the descriptor of a selected row
rowDescriptor(r, idx) ==
    LET ref == IF idx.ref >= 0 THEN OrEmpty(At(r, idx.ref)) ELSE <<>>
        id == IF idx.id >= 0 THEN OrEmpty(At(r, idx.id)) ELSE <<>>
        qt == IF idx.quote >= 0 THEN OrEmpty(At(r, idx.quote)) ELSE <<>>
        oc == IF idx.occ >= 0 THEN OrEmpty(At(r, idx.occ)) ELSE <<>>
    IN  Trim(ref \o (IF ref # <<>> THEN <<SP>> ELSE <<>>)
             \o <<"[ID:">> \o id \o <<"]", SP>> \o qt
             \o (IF oc # <<>> THEN <<SP, "(occ", SP>> \o oc \o <<")">>
                 ELSE <<>>))

\* lines 709-722: what is returned for the rows kept: their text, their keys,
\* the descriptors of the first of them
partialResult(rows, idx, outRows) ==
    [partialTSV |-> ToTSV(outRows),
     keys |-> {makeRowKey(outRows[i], idx) : i \in 2..Len(outRows)},
     idx |-> idx, headers |-> rows[1], rows |-> rows,
     missingKeys |-> [k \in 1..Min(Len(outRows) - 1, MaxDescriptors) |->
                         rowDescriptor(outRows[k + 1], idx)]]

\* lines 683-723
buildPartialTSVForMissing(fullTSV) ==
    LET rows == partialSourceRows(fullTSV)
        idx == getIndexBundle(rows[1])
        keep == [i \in 1..Len(rows) |->
                    \/ i = 1
                    \/ (Len(rows[i]) > 1 /\ needsPartial(rows[i], idx))]
    IN  partialResult(rows, idx, SelectRows(rows, keep))

\* mutation: the key is not compared
partialEntry_anyKey(key, partRows, partIdx) ==
    LET hits == {i \in 2..Len(partRows) : Len(partRows[i]) > 1}
    IN  IF hits = {} THEN 0
        ELSE CHOOSE i \in hits : \A k \in hits : k <= i

\* mutation: the first row with the key stays
partialEntry_firstRow(key, partRows, partIdx) ==
    LET hits == {i \in 2..Len(partRows) :
                    Len(partRows[i]) > 1 /\ makeRowKey(partRows[i], partIdx) = key}
    IN  IF hits = {} THEN 0
        ELSE CHOOSE i \in hits : \A k \in hits : i <= k

\* lines 735-744: the entry of the map for a key (1-based row of partRows, 0 if
\* none): Map.set replaces an earlier entry, so the last row with the key stays
partialEntry(key, partRows, partIdx) ==
    LET hits == {i \in 2..Len(partRows) :
                    Len(partRows[i]) > 1 /\ makeRowKey(partRows[i], partIdx) = key}
    IN  IF hits = {} THEN 0
        ELSE CHOOSE i \in hits : \A k \in hits : k <= i

\* lines 725-758
mergePartialBack(fullTSV, partialTSV) ==
    LET fullRows == ParseTSV(fullTSV)
        fullIdx == getIndexBundle(fullRows[1])
        partRows == ParseTSV(partialTSV)
        partIdx == getIndexBundle(partRows[1])
        glq(i) == IF partIdx.glq >= 0
                  THEN NullishEmpty(At(partRows[i], partIdx.glq)) ELSE <<>>
        glo(i) == IF partIdx.glo >= 0
                  THEN NullishEmpty(At(partRows[i], partIdx.glo)) ELSE <<>>
        merged(r) ==
            LET v == partialEntry(makeRowKey(r, fullIdx), partRows, partIdx)
                r1 == IF fullIdx.glq >= 0 THEN SetAt(r, fullIdx.glq, glq(v)) ELSE r
                r2 == IF fullIdx.glo >= 0 THEN SetAt(r1, fullIdx.glo, glo(v)) ELSE r1
            IN  IF Len(r) <= 1 \/ v = 0 THEN r ELSE r2
    IN  ToTSV([i \in 1..Len(fullRows) |->
                  IF i = 1 THEN fullRows[1] ELSE merged(fullRows[i])])

\* lines 902-920: the recount of main after mergePartialBack
missingAfterOf(tsvContent) ==
    LET rowsAfter == ParseTSV(tsvContent)
        idxAfter == getIndexBundle(rowsAfter[1])
    IN  IF idxAfter.glq >= 0
        THEN Cardinality({i \in 2..Len(rowsAfter) :
                 Len(rowsAfter[i]) > 1 /\ needsRecount(rowsAfter[i], idxAfter)})
        ELSE 0

\* mutation: the partial regeneration never counts as complete
partialCompleted_never(content) == FALSE

\* lines 925-928: partialCompleted, set when the recount finds no row
partialCompleted(content) == missingAfterOf(content) = 0

(***************************************************************************)
(* Inputs: the files, previous files and collaborator outputs the checks   *)
(* draw from                                                               *)
(***************************************************************************)
\* data rows of a generated file
MaxRows == 2

\* the JavaScript value null, where a text is expected
NULL == <<"<null>">>

QuoteNames == {"Quote", "OrigQuote", "OrigWords"}

HeaderGL(q) == <<Col("Reference"), Col("ID"), Col(q), Col("Occurrence"),
                 Col("GLQuote"), Col("GLOccurrence")>>
HeaderPlain(q) == <<Col("Reference"), Col("ID"), Col(q), Col("Occurrence")>>
\* a header that has an OrigWords column before its Quote column
HeaderBoth == <<Col("OrigWords"), Col("Reference"), Col("ID"), Col("Quote"),
                Col("Occurrence"), Col("GLQuote"), Col("GLOccurrence")>>

QuoteValues == {<<>>, <<SP>>, <<"q">>, <<QNF>>, <<"q", QNF>>}
OccurrenceValues == {<<>>, <<SP>>, <<"0">>, <<"1">>}
GLQuoteValues == {<<>>, <<SP>>, <<"g">>, <<QNF>>, <<QNF, "g">>}

\* the first data row of a file with the derived columns: every combination
FirstRowsGL ==
    {<<<<"1:1">>, <<"a">>, q, o, g, IF TrimTruthy(g) THEN <<"1">> ELSE <<>>>> :
        q \in QuoteValues, o \in OccurrenceValues, g \in GLQuoteValues}
    \cup {<<<<"1:1">>, <<"a">>>>, <<<<"1:1">>, <<"a">>, <<"q">>, <<"1">>>>,
          <<<<"1:1">>, <<"a">>, <<QNF>>>>}

\* the rows that may follow it: the same key with and without a value, another
\* key, a row that is not eligible, and the blank line
MoreRowsGL ==
    {<<<<"1:1">>, <<"a">>, <<"q">>, <<"1">>, <<>>, <<>>>>,
     <<<<"1:1">>, <<"a">>, <<"q">>, <<"1">>, <<"g">>, <<"1">>>>,
     <<<<"1:1">>, <<"b">>, <<"q">>, <<"1">>, <<>>, <<>>>>,
     <<<<"1:1">>, <<"b">>, <<QNF>>, <<"0">>, <<"g">>, <<"1">>>>,
     << <<>> >>}

FirstRowsPlain ==
    {<<<<"1:1">>, <<"a">>, q, o>> : q \in QuoteValues, o \in OccurrenceValues}

MoreRowsPlain ==
    {<<<<"1:1">>, <<"a">>, <<"q">>, <<"1">>>>,
     <<<<"1:1">>, <<"b">>, <<"q">>, <<"1">>>>,
     <<<<"1:1">>, <<"b">>, <<QNF>>, <<"0">>>>,
     << <<>> >>}

\* sequences of at most n elements of S
RECURSIVE SeqsUpTo(_, _)
SeqsUpTo(S, n) ==
    IF n = 0 THEN {<<>>}
    ELSE LET shorter == SeqsUpTo(S, n - 1)
         IN  shorter \cup {Append(t, x) : t \in shorter, x \in S}

\* a header, a first row and up to MaxRows - 1 more rows
Files(headers, first, more) ==
    {ToTSV(<<h, r>> \o t) : h \in headers, r \in first,
                            t \in SeqsUpTo(more, MaxRows - 1)}

FilesGL ==
    Files({HeaderGL(q) : q \in QuoteNames},
          FirstRowsGL, MoreRowsGL)
    \cup Files({HeaderBoth},
               {<<<<QNF>>>> \o r : r \in {x \in FirstRowsGL : Len(x) = 6}},
               {<<<<"w">>>> \o r : r \in {x \in MoreRowsGL : Len(x) = 6}})

FilesPlain == Files({HeaderPlain("Quote")}, FirstRowsPlain, MoreRowsPlain)

\* previous files: rows with derived values, and one without derived columns
PreviousFirstRows ==
    {<<<<"1:1">>, <<i>>, <<"q">>, <<"1">>, g, <<"1">>>> :
        i \in {"a", "b"}, g \in {<<"p">>, <<QNF>>, <<>>}}
    \cup {<<<<"1:1">>, <<"a">>, <<"q">>, <<"0">>, <<"p">>, <<"1">>>>}

PreviousMoreRows ==
    {<<<<"1:1">>, <<"a">>, <<"q">>, <<"1">>, <<"r">>, <<"2">>>>,
     <<<<"1:1">>, <<"b">>, <<"q">>, <<"1">>, <<"r">>, <<"2">>>>}

PreviousFiles ==
    Files({HeaderGL("Quote")}, PreviousFirstRows, PreviousMoreRows)
    \cup {ToTSV(<<HeaderPlain("Quote"), <<<<"1:1">>, <<"a">>, <<"q">>, <<"1">>>>>>)}

(***************************************************************************)
(* The computation collaborator, addGLQuoteCols of tsv-quote-converters:   *)
(* its output is a text chosen by the environment                          *)
(***************************************************************************)
\* values the collaborator may compute for a row
ComputedValues == {<<"G">>, <<QNF>>}

\* the input with the derived columns of its data rows filled in; choice[i]
\* is the GLQuote given to row i
Computed(tsvContent, choice) ==
    LET withCols == IF hasGLColumns(tsvContent) THEN tsvContent
                    ELSE addEmptyGLQuoteColumns(tsvContent)
        rows == ParseTSV(withCols)
        idx == getIndexBundle(rows[1])
        fill(i) == SetAt(SetAt(rows[i], idx.glq, choice[i]), idx.glo, <<"1">>)
    IN  ToTSV([i \in 1..Len(rows) |->
                  IF i = 1 \/ Len(rows[i]) <= 1 \/ idx.glq < 0 \/ idx.glo < 0
                  THEN rows[i] ELSE fill(i)])

\* outputs that are not the input with values filled in: rows of another key,
\* twice the same key
ForeignOutputs ==
    {ToTSV(<<HeaderGL("Quote"),
             <<<<"1:1">>, <<"b">>, <<"q">>, <<"1">>, <<"G">>, <<"1">>>>>>),
     ToTSV(<<HeaderGL("Quote"),
             <<<<"1:1">>, <<"a">>, <<"q">>, <<"1">>, <<"G">>, <<"1">>>>,
             <<<<"1:1">>, <<"a">>, <<"q">>, <<"1">>, <<"H">>, <<"2">>>>>>)}

CollaboratorOutputs(tsvContent) ==
    LET n == Len(SplitOn(tsvContent, NL))
    IN  {Computed(tsvContent, c) : c \in [1..n -> ComputedValues]}
        \cup ForeignOutputs

\* results handed to mergePartialBack on their own: one row of any key, the
\* foreign outputs, a result with a blank line and a short row
PartialResults ==
    {ToTSV(<<HeaderGL("Quote"), <<<<"1:1">>, k[1], k[2], k[3], g, <<"2">>>>>>) :
        k \in {<<<<"a">>, <<"q">>, <<"1">>>>, <<<<"b">>, <<"q">>, <<"1">>>>,
               <<<<"a">>, <<"q">>, <<"0">>>>, <<<<"a">>, <<QNF>>, <<"0">>>>},
        g \in ComputedValues}
    \cup ForeignOutputs
    \cup {ToTSV(<<HeaderGL("Quote"), << <<>> >>, <<<<"1:1">>, <<"a">>>>>>)}

(***************************************************************************)
(* State                                                                   *)
(***************************************************************************)
VARIABLES
    fn,         \* the function applied to fnIn, "none" before the call
    fnIn,       \* its first argument, a file's text
    fnArg,      \* what the environment supplied: the previous file, the partial
                \* result, the collaborator's output
    fnOut,      \* what it returned
    argv,       \* the options of the run
    tsvFiles,   \* the texts of the TSV files of the working directory, in order
    pc,         \* where main stands: "main", "file" (top of the loop), the call
                \* it awaits ("listing", "download", "partial", "full"), "done"
                \* (returned), "exit0", "exit1" (process.exit)
    fileNo,     \* the file of the loop, 1-based
    tsvContent, \* the variable tsvContent of the loop body
    merged,     \* what mergePreviousGLQuotes returned for the file
    cache,      \* globalThis.__previousGLZipCache
    errors,     \* the array errors of main
    callers,    \* the calls of getPreviousGLQuotes that run concurrently: where
                \* each stands, the promise it awaits, what it resolved to
    promises,   \* the listing and download operations started so far, in
                \* order: pending, fulfilled with a value, or rejected
    zipCache,   \* globalThis.__previousGLZipCache as those calls share it, its
                \* promises named by their place in promises
    log         \* what the run has done so far, in order: requests, summaries,
                \* computation calls and their outcomes, files and zip entries
                \* written, error logs, the exit

fnVars == <<fn, fnIn, fnArg, fnOut>>
mainVars == <<argv, tsvFiles, pc, fileNo, tsvContent, merged, cache, errors, log>>
resVars == <<callers, promises, zipCache>>
vars == <<fn, fnIn, fnArg, fnOut, argv, tsvFiles, pc, fileNo, tsvContent, merged,
          cache, errors, log, callers, promises, zipCache>>

\* lines 287-293
EmptyCache == [zipUrl |-> NULL, zip |-> NULL, zipPromise |-> FALSE,
               urlPromise |-> FALSE]

NoOptions == [regenerateAll |-> FALSE, exitOnError |-> FALSE, zip |-> FALSE,
              tsv |-> FALSE, summaryOnly |-> FALSE]

\* main is not running
MainOff ==
    /\ argv = NoOptions
    /\ tsvFiles = <<>>
    /\ pc = "off"
    /\ fileNo = 0
    /\ tsvContent = NULL
    /\ merged = NULL
    /\ cache = EmptyCache
    /\ errors = <<>>
    /\ log = <<>>

\* no function is applied on its own
FunctionsOff ==
    /\ fn = "off"
    /\ fnIn = NULL
    /\ fnArg = NULL
    /\ fnOut = NULL

\* the calls of getPreviousGLQuotes that may run at the same time, and the
\* calls each of them makes one after the other
MaxCallers == 2
MaxCalls == 2
Callers == 1..MaxCallers

\* null where the cache holds a promise
NoPromise == 0

\* a caller that has not called yet
Idle == [pc |-> "idle", fileName |-> "", calls |-> 0, awaits |-> NoPromise,
         zipContent |-> NULL, outcome |-> "", result |-> NULL]

\* lines 287-293, zipPromise and urlPromise holding promises
EmptyZipCache == [zipUrl |-> NULL, zip |-> NULL, zipPromise |-> NoPromise,
                  urlPromise |-> NoPromise]

\* no concurrent callers
ResolverOff ==
    /\ callers = [p \in Callers |-> Idle]
    /\ promises = <<>>
    /\ zipCache = EmptyZipCache

(***************************************************************************)
(* The functions applied on their own to every generated file              *)
(***************************************************************************)
InitFunctions ==
    /\ fn = "none"
    /\ fnIn \in FilesGL \cup FilesPlain
    /\ fnArg = NULL
    /\ fnOut = NULL
    /\ MainOff
    /\ ResolverOff

\* mergePreviousGLQuotes, with what getPreviousGLQuotes resolved to
CallMergePrevious ==
    /\ fn = "none"
    /\ fn' = "mergePreviousGLQuotes"
    /\ IF hasGLColumns(fnIn)
       THEN fnArg' = NULL /\ fnOut' = mergeExisting(fnIn)
       ELSE \E previousContent \in PreviousFiles \cup {NULL, <<>>} :
               /\ fnArg' = previousContent
               /\ fnOut' = IF previousContent \in {NULL, <<>>}
                           THEN mergeNoPrevious(fnIn)
                           ELSE mergeWithPrevious(fnIn, previousContent)
    /\ UNCHANGED fnIn
    /\ UNCHANGED <<mainVars, resVars>>

\* the three places that decide which rows are missing, on one file
CallSelection ==
    /\ fn = "none"
    /\ hasGLColumns(fnIn)
    /\ fn' = "selection"
    /\ fnOut' = [missingCount |-> mergeExisting(fnIn).missingCount,
                 partialTSV |-> buildPartialTSVForMissing(fnIn).partialTSV,
                 missingAfter |-> missingAfterOf(fnIn)]
    /\ UNCHANGED <<fnIn, fnArg>>
    /\ UNCHANGED <<mainVars, resVars>>

CallMergePartialBack ==
    /\ fn = "none"
    /\ hasGLColumns(fnIn)
    /\ fn' = "mergePartialBack"
    /\ \E partialTSV \in PartialResults :
           /\ fnArg' = partialTSV
           /\ fnOut' = mergePartialBack(fnIn, partialTSV)
    /\ UNCHANGED fnIn
    /\ UNCHANGED <<mainVars, resVars>>

\* lines 879-900: buildPartialTSVForMissing, addGLQuoteCols, mergePartialBack,
\* on a file of which buildPartialTSVForMissing selects a row
CallPartialRegeneration ==
    /\ fn = "none"
    /\ hasGLColumns(fnIn)
    /\ Len(ParseTSV(buildPartialTSVForMissing(fnIn).partialTSV)) > 1
    /\ fn' = "partialRegeneration"
    /\ \E partialTSV \in {buildPartialTSVForMissing(fnIn).partialTSV} :
       \E output \in CollaboratorOutputs(partialTSV) :
           /\ fnArg' = output
           /\ fnOut' = mergePartialBack(fnIn, output)
    /\ UNCHANGED fnIn
    /\ UNCHANGED <<mainVars, resVars>>

NextFunctions ==
    \/ CallMergePrevious
    \/ CallSelection
    \/ CallMergePartialBack
    \/ CallPartialRegeneration

SpecFunctions == InitFunctions /\ [][NextFunctions]_vars

(***************************************************************************)
(* main: one run over the TSV files of the working directory               *)
(***************************************************************************)
\* files of a run
MaxFiles == 2

\* readdirSync lists the files in this order
FileNames == <<"tn_EXO.tsv", "tn_GEN.tsv", "tn_LEV.tsv", "tn_NUM.tsv">>
FileName(i) == FileNames[i]

HeaderNoOccurrence == <<Col("Reference"), Col("ID"), Col("Quote")>>

\* the first file of a run: a file with the derived columns whose first row
\* takes every combination, alone or followed by a row; a file without them; a
\* file without an Occurrence column
MainFirstRowsGL ==
    {<<<<"1:1">>, <<"a">>, q, o, g, IF TrimTruthy(g) THEN <<"1">> ELSE <<>>>> :
        q \in {<<"q">>, <<QNF>>}, o \in {<<"0">>, <<"1">>}, g \in GLQuoteValues}

MainMoreRowsGL ==
    {<<<<"1:1">>, <<"a">>, <<"q">>, <<"1">>, <<>>, <<>>>>,
     <<<<"1:1">>, <<"b">>, <<"q">>, <<"1">>, <<"g">>, <<"1">>>>,
     << <<>> >>}

MainFirstFiles ==
    Files({HeaderGL("Quote")}, MainFirstRowsGL, MainMoreRowsGL)
    \cup Files({HeaderGL("OrigWords")},
               {<<<<"1:1">>, <<"a">>, <<QNF>>, <<"1">>, <<"g">>, <<"1">>>>},
               MainMoreRowsGL)
    \cup Files({HeaderPlain("Quote")},
               {<<<<"1:1">>, <<"a">>, <<"q">>, <<"1">>>>},
               {<<<<"1:1">>, <<"b">>, <<"q">>, <<"1">>>>,
                <<<<"1:1">>, <<"b">>, <<"q">>, <<"0">>>>, << <<>> >>})
    \cup {ToTSV(<<HeaderNoOccurrence, <<<<"1:1">>, <<"a">>, <<"q">>>>>>)}

\* the first file of a run of several files: one with a missing row, a
\* complete one, two without the derived columns (the second is also a later
\* file), one without Occurrence
ShortFirstFiles ==
    {ToTSV(<<HeaderGL("Quote"),
             <<<<"1:1">>, <<"a">>, <<"q">>, <<"1">>, <<"g">>, <<"1">>>>,
             <<<<"1:1">>, <<"b">>, <<"q">>, <<"1">>, <<>>, <<>>>>>>),
     ToTSV(<<HeaderGL("Quote"),
             <<<<"1:1">>, <<"a">>, <<"q">>, <<"1">>, <<"g">>, <<"1">>>>>>),
     ToTSV(<<HeaderPlain("Quote"),
             <<<<"1:1">>, <<"a">>, <<"q">>, <<"1">>>>,
             <<<<"1:1">>, <<"b">>, <<"q">>, <<"1">>>>>>),
     ToTSV(<<HeaderPlain("Quote"),
             <<<<"1:1">>, <<"a">>, <<"q">>, <<"1">>>>>>),
     ToTSV(<<HeaderNoOccurrence, <<<<"1:1">>, <<"a">>, <<"q">>>>>>)}

\* the files that follow it
MainMoreFiles ==
    {ToTSV(<<HeaderGL("Quote"),
             <<<<"1:1">>, <<"a">>, <<"q">>, <<"1">>, <<"g">>, <<"1">>>>,
             <<<<"1:1">>, <<"b">>, <<"q">>, <<"1">>, <<>>, <<>>>>>>),
     ToTSV(<<HeaderPlain("Quote"),
             <<<<"1:1">>, <<"a">>, <<"q">>, <<"1">>>>>>),
     ToTSV(<<HeaderNoOccurrence, <<<<"1:1">>, <<"a">>, <<"q">>>>>>)}

\* the lists of several files: none, or a first file and up to MaxFiles - 1
\* more
FileLists ==
    {<<>>} \cup {<<f>> \o t : f \in ShortFirstFiles,
                                t \in SeqsUpTo(MainMoreFiles, MaxFiles - 1)}

\* what the previous artifact may hold for a file
MainPreviousFiles ==
    {ToTSV(<<HeaderGL("Quote"),
             <<<<"1:1">>, <<"a">>, <<"q">>, <<"1">>, <<"p">>, <<"1">>>>>>),
     ToTSV(<<HeaderGL("Quote"),
             <<<<"1:1">>, <<"a">>, <<"q">>, <<"1">>, <<"p">>, <<"1">>>>,
             <<<<"1:1">>, <<"b">>, <<"q">>, <<"1">>, <<QNF>>, <<"1">>>>>>),
     ToTSV(<<HeaderGL("Quote"),
             <<<<"1:1">>, <<"a">>, <<"q">>, <<"1">>, <<"p">>, <<"1">>>>,
             <<<<"1:1">>, <<"b">>, <<"q">>, <<"1">>, <<"p">>, <<"2">>>>>>),
     ToTSV(<<HeaderPlain("Quote"), <<<<"1:1">>, <<"a">>, <<"q">>, <<"1">>>>>>)}

\* the archives a download may yield: the same previous file, or none, for
\* every file of the run, and a previous file for the first file only
Archives ==
    {[n \in {FileName(i) : i \in 1..Len(tsvFiles)} |-> p] :
        p \in MainPreviousFiles \cup {NULL}}
    \cup {[n \in {FileName(i) : i \in 1..Len(tsvFiles)} |->
               IF n = FileName(1) THEN p ELSE NULL] : p \in MainPreviousFiles}

\* what the collaborator returns to main: the input with one value in every
\* data row, or an output of other rows
MainOutputs(content) ==
    {Computed(content, [i \in 1..Len(SplitOn(content, NL)) |-> v]) :
        v \in ComputedValues}
    \cup {ToTSV(<<HeaderGL("Quote"),
                  <<<<"1:1">>, <<"b">>, <<"q">>, <<"1">>, <<"G">>, <<"1">>>>>>)}

Options ==
    [regenerateAll : BOOLEAN, exitOnError : BOOLEAN, zip : BOOLEAN,
     tsv : BOOLEAN, summaryOnly : BOOLEAN]

\* the runs: every combination of options on the lists of several files, and
\* every single file with and without SUMMARY_ONLY
Runs ==
    {<<o, l>> : o \in Options, l \in FileLists}
    \cup {<<o, <<f>>>> : o \in {NoOptions,
                                  [NoOptions EXCEPT !.summaryOnly = TRUE]},
                          f \in MainFirstFiles}

\* mutation: the options --rerender and --regenerate are not read
regenerateAll_ignored == FALSE

\* lines 157-158
regenerateAll == argv.regenerateAll

\* lines 817-818
shouldCreateZip == argv.zip

\* mutation: --zip alone still writes the TSV files
shouldWriteTsv_always == TRUE

shouldWriteTsv == ~argv.zip \/ argv.tsv

\* mutation: the error log is not written
writeErrorsToFile_nothing(errs, lg) == lg

\* mutation: the log is written for an empty list too
writeErrorsToFile_always(errs, lg) ==
    Append(lg, [type |-> "errorLog", errors |-> errs])

\* lines 249-277: nothing is written for an empty list
writeErrorsToFile(errs, lg) ==
    IF Len(errs) = 0 THEN lg
    ELSE Append(lg, [type |-> "errorLog", errors |-> errs])

\* mutation: the file as read from disk is written, not the output
Emitted_fromDisk(file, output, lg) ==
    lg \o (IF shouldWriteTsv
           THEN <<[type |-> "write", file |-> file, output |-> tsvFiles[fileNo]]>>
           ELSE <<>>)
       \o (IF shouldCreateZip
           THEN <<[type |-> "zipEntry", file |-> file,
                   output |-> tsvFiles[fileNo]]>>
           ELSE <<>>)

\* lines 856-868, 935-947, 1044-1060: the output of a file
Emitted(file, output, lg) ==
    lg \o (IF shouldWriteTsv
           THEN <<[type |-> "write", file |-> file, output |-> output]>>
           ELSE <<>>)
       \o (IF shouldCreateZip
           THEN <<[type |-> "zipEntry", file |-> file, output |-> output]>>
           ELSE <<>>)

Called(file, kind, content, lg) ==
    Append(lg, [type |-> "call", file |-> file, kind |-> kind,
                tsvContent |-> content])

\* lines 1072-1076: the catch of main
Fatal(message, lg) ==
    /\ pc' = "exit1"
    /\ log' = Append(writeErrorsToFile(<<[file |-> "", error |-> message]>>, lg),
                     [type |-> "exit", code |-> 1])

\* lines 1011-1037: the fallback when addGLQuoteCols failed
manualFallback(content) ==
    LET rows == ParseTSV(content)
        headers == rows[1]
        occurrenceIndex == IndexOf(headers, Col("Occurrence"))
    IN  IF occurrenceIndex # -1
        THEN ToTSV([i \in 1..Len(rows) |->
                 IF i = 1
                 THEN Splice2(headers, occurrenceIndex + 1,
                              Col("GLQuote"), Col("GLOccurrence"))
                 ELSE IF Len(rows[i]) > 1
                      THEN Splice2(rows[i], occurrenceIndex + 1, <<>>, <<>>)
                      ELSE rows[i]])
        ELSE content

\* the location fetchArtifactZipUrl found
ZIP_URL == <<"https://qa.door43.org/artifact.zip">>

Init ==
    /\ FunctionsOff
    /\ ResolverOff
    /\ \E run \in Runs : argv = run[1] /\ tsvFiles = run[2]
    /\ pc = "main"
    /\ fileNo = 0
    /\ tsvContent = NULL
    /\ merged = NULL
    /\ cache = EmptyCache
    /\ errors = <<>>
    /\ log = <<>>

\* lines 799-824: main up to the loop
Main ==
    /\ pc = "main"
    /\ IF Len(tsvFiles) = 0
       THEN Fatal("No TSV files found in working directory", log)
            /\ UNCHANGED fileNo
       ELSE pc' = "file" /\ fileNo' = 1 /\ UNCHANGED log
    /\ UNCHANGED <<argv, tsvFiles, tsvContent, merged, cache, errors>>
    /\ UNCHANGED <<fnVars, resVars>>

\* lines 841-950: main from the return of mergePreviousGLQuotes (m) to its
\* next await or to the end of the loop body; c is the cache and lg the log
\* as getPreviousGLQuotes left them
AfterMerge(m, c, lg) ==
    LET file == FileName(fileNo)
        content == IF m.kind = "string" THEN UNDEF ELSE m.output
        \* the summary line of lines 842-843, and the output it came with
        summary == [type |-> "summary", file |-> file, output |-> m.output,
                    hits |-> IF m.matchedCount = NoCount THEN 0
                             ELSE m.matchedCount,
                    toGenerate |-> m.missingCount,
                    total |-> m.totalDataRows]
        lg1 == Append(lg, summary)
        totalRows == IF m.totalDataRows # NoCount THEN m.totalDataRows
                     ELSE Len(SplitOn(content, NL)) - 1
    IN  /\ merged' = m
        /\ cache' = c
        /\ tsvContent' = content
        /\ IF argv.summaryOnly
           THEN /\ pc' = "exit0"
                /\ log' = Append(lg1, [type |-> "exit", code |-> 0])
                /\ UNCHANGED fileNo
           ELSE IF m.kind = "string"
           THEN \* line 874: tsvContent is undefined, split throws
                /\ Fatal("Cannot read properties of undefined", lg1)
                /\ UNCHANGED fileNo
           ELSE IF m.missingCount = 0
           THEN /\ log' = Emitted(file, content, lg1)
                /\ pc' = "file"
                /\ fileNo' = fileNo + 1
           ELSE IF m.missingCount > 0 /\ m.missingCount < totalRows
           THEN /\ \E partialTSV \in {buildPartialTSVForMissing(content).partialTSV} :
                       log' = Called(file, "partial", partialTSV, lg1)
                /\ pc' = "partial"
                /\ UNCHANGED fileNo
           ELSE /\ log' = Called(file, "full", content, lg1)
                /\ pc' = "full"
                /\ UNCHANGED fileNo

\* lines 412-423 and 477-641: the file is looked up in the archive and merged
LookUp(zip, c, lg) ==
    \E previousContent \in {zip[FileName(fileNo)]} :
        \E m \in {IF previousContent \in {NULL, <<>>}
                  THEN mergeNoPrevious(tsvFiles[fileNo])
                  ELSE mergeWithPrevious(tsvFiles[fileNo], previousContent)} :
            AfterMerge(m, c, lg)

\* the cached archive is not read: the file counts as absent from it
ResolveZip_cacheUnread(c, lg) ==
    IF c.zip # NULL
    THEN \E m \in {mergeNoPrevious(tsvFiles[fileNo])} : AfterMerge(m, c, lg)
    ELSE /\ pc' = "download"
         /\ cache' = [c EXCEPT !.zipPromise = TRUE]
         /\ log' = IF c.zipPromise THEN lg ELSE Append(lg, [type |-> "download"])
         /\ UNCHANGED <<fileNo, tsvContent, merged>>

\* lines 350-410: getPreviousGLQuotes once the location is known
ResolveZip(c, lg) ==
    IF c.zip # NULL
    THEN LookUp(c.zip, c, lg)
    ELSE /\ pc' = "download"
         /\ cache' = [c EXCEPT !.zipPromise = TRUE]
         /\ log' = IF c.zipPromise THEN lg ELSE Append(lg, [type |-> "download"])
         /\ UNCHANGED <<fileNo, tsvContent, merged>>

\* lines 826-840, 284-348: the top of the loop body, to its first await
StartFile ==
    /\ pc = "file"
    /\ fileNo <= Len(tsvFiles)
    /\ LET content == tsvFiles[fileNo]
       IN  IF regenerateAll
           THEN /\ tsvContent' = content
                /\ log' = Called(FileName(fileNo), "full", content, log)
                /\ pc' = "full"
                /\ UNCHANGED <<fileNo, merged, cache>>
           ELSE IF hasGLColumns(content)
           THEN \E m \in {mergeExisting(content)} : AfterMerge(m, cache, log)
           ELSE IF cache.zipUrl = NULL
           THEN /\ cache' = [cache EXCEPT !.urlPromise = TRUE]
                /\ log' = Append(log, [type |-> "list"])
                /\ pc' = "listing"
                /\ tsvContent' = content
                /\ UNCHANGED <<fileNo, merged>>
           ELSE ResolveZip(cache, log)
    /\ UNCHANGED <<argv, tsvFiles, errors>>
    /\ UNCHANGED <<fnVars, resVars>>

\* lines 300-348: the listing request returned, failed, or listed no candidate
ListingReturns ==
    /\ pc = "listing"
    /\ \E outcome \in {"rejected", "notOk", "noCandidate", "found"} :
           LET url == IF outcome = "found" THEN ZIP_URL ELSE NULL
               c == [cache EXCEPT !.zipUrl = url, !.urlPromise = FALSE]
           IN  IF url = NULL
               THEN \E m \in {mergeNoPrevious(tsvFiles[fileNo])} :
                        AfterMerge(m, c, log)
               ELSE ResolveZip(c, log)
    /\ UNCHANGED <<argv, tsvFiles, errors>>
    /\ UNCHANGED <<fnVars, resVars>>

\* lines 376-410: the download returned an archive
DownloadReturns ==
    /\ pc = "download"
    /\ \E zip \in Archives :
           LookUp(zip, [cache EXCEPT !.zip = zip, !.zipPromise = FALSE], log)
    /\ UNCHANGED <<argv, tsvFiles, errors>>
    /\ UNCHANGED <<fnVars, resVars>>

\* lines 376-410, 424-427: the download was rejected, was not OK, was no zip
\* file or could not be loaded
DownloadFails ==
    /\ pc = "download"
    /\ \E m \in {mergeNoPrevious(tsvFiles[fileNo])} :
           AfterMerge(m, [cache EXCEPT !.zipPromise = FALSE], log)
    /\ UNCHANGED <<argv, tsvFiles, errors>>
    /\ UNCHANGED <<fnVars, resVars>>

\* lines 898-949: the partial call returned
PartialReturns ==
    /\ pc = "partial"
    /\ \E partialTSV \in {buildPartialTSVForMissing(tsvContent).partialTSV} :
       \E output \in MainOutputs(partialTSV) :
       \E newContent \in {mergePartialBack(tsvContent, output)} :
           LET file == FileName(fileNo)
               lg == Append(log, [type |-> "return", file |-> file,
                                  kind |-> "partial", ok |-> TRUE,
                                  output |-> output])
           IN  /\ tsvContent' = newContent
               /\ IF partialCompleted(newContent)
                  THEN /\ log' = Emitted(file, newContent, lg)
                       /\ pc' = "file"
                       /\ fileNo' = fileNo + 1
                  ELSE /\ log' = Called(file, "full", newContent, lg)
                       /\ pc' = "full"
                       /\ UNCHANGED fileNo
    /\ UNCHANGED <<argv, tsvFiles, merged, cache, errors>>
    /\ UNCHANGED <<fnVars, resVars>>

\* mutation: the full-file call is handed the rows of the partial call
PartialFails_partialRows ==
    /\ pc = "partial"
    /\ log' = Called(FileName(fileNo), "full",
                     buildPartialTSVForMissing(tsvContent).partialTSV,
                     Append(log, [type |-> "return", file |-> FileName(fileNo),
                                  kind |-> "partial", ok |-> FALSE,
                                  output |-> NULL]))
    /\ pc' = "full"
    /\ UNCHANGED <<argv, tsvFiles, fileNo, tsvContent, merged, cache, errors>>
    /\ UNCHANGED <<fnVars, resVars>>

\* lines 929-932, 952-969: the partial call failed
PartialFails ==
    /\ pc = "partial"
    /\ log' = Called(FileName(fileNo), "full", tsvContent,
                     Append(log, [type |-> "return", file |-> FileName(fileNo),
                                  kind |-> "partial", ok |-> FALSE,
                                  output |-> NULL]))
    /\ pc' = "full"
    /\ UNCHANGED <<argv, tsvFiles, fileNo, tsvContent, merged, cache, errors>>
    /\ UNCHANGED <<fnVars, resVars>>

\* lines 969-992, 1044-1060: the full-file call returned
FullReturns ==
    /\ pc = "full"
    /\ \E output \in MainOutputs(tsvContent) :
           log' = Emitted(FileName(fileNo), output,
                          Append(log, [type |-> "return",
                                       file |-> FileName(fileNo),
                                       kind |-> "full", ok |-> TRUE,
                                       output |-> output]))
    /\ pc' = "file"
    /\ fileNo' = fileNo + 1
    /\ UNCHANGED <<argv, tsvFiles, tsvContent, merged, cache, errors>>
    /\ UNCHANGED <<fnVars, resVars>>

\* lines 993-1060: the full-file call failed
FullFails ==
    /\ pc = "full"
    /\ LET file == FileName(fileNo)
           errs == Append(errors, [file |-> file, error |-> "addGLQuoteCols failed"])
           lg == Append(log, [type |-> "return", file |-> file, kind |-> "full",
                              ok |-> FALSE, output |-> NULL])
       IN  /\ errors' = errs
           /\ IF argv.exitOnError
              THEN /\ log' = Append(writeErrorsToFile(errs, lg),
                                    [type |-> "exit", code |-> 1])
                   /\ pc' = "exit1"
                   /\ UNCHANGED fileNo
              ELSE /\ log' = Emitted(file, manualFallback(tsvContent), lg)
                   /\ pc' = "file"
                   /\ fileNo' = fileNo + 1
    /\ UNCHANGED <<argv, tsvFiles, tsvContent, merged, cache>>
    /\ UNCHANGED <<fnVars, resVars>>

\* lines 1063-1071: after the loop
Finish ==
    /\ pc = "file"
    /\ fileNo > Len(tsvFiles)
    /\ log' = writeErrorsToFile(errors,
                  IF shouldCreateZip THEN Append(log, [type |-> "zipWrite"])
                  ELSE log)
    /\ pc' = "done"
    /\ UNCHANGED <<argv, tsvFiles, fileNo, tsvContent, merged, cache, errors>>
    /\ UNCHANGED <<fnVars, resVars>>

Next ==
    \/ Main
    \/ StartFile
    \/ ListingReturns
    \/ DownloadReturns
    \/ DownloadFails
    \/ PartialReturns
    \/ PartialFails
    \/ FullReturns
    \/ FullFails
    \/ Finish

Spec == Init /\ [][Next]_vars

(***************************************************************************)
(* getPreviousGLQuotes called by several callers at once.  A step runs one *)
(* caller from an await to the next, or settles a pending operation.       *)
(***************************************************************************)
\* the files the callers ask for
ResolverFiles == {FileName(1), FileName(2)}

\* the archive a download loads: its files by name; it has no tn_GEN.tsv
ARCHIVE ==
    [n \in ResolverFiles |->
        IF n = FileName(1)
        THEN ToTSV(<<HeaderGL("Quote"),
                     <<<<"1:1">>, <<"a">>, <<"q">>, <<"1">>, <<"p">>, <<"1">>>>>>)
        ELSE NULL]

\* how a listing ends: the fetch rejects, the status is not OK, no artifact
\* matches, an artifact matches
ListingOutcomes == {"rejected", "notOk", "noCandidate", "found"}

\* how a download ends: the fetch rejects, the status is not OK, the payload
\* does not start with PK, JSZip cannot load it, the archive is loaded
DownloadOutcomes == {"rejected", "notOk", "notZip", "loadFails", "loaded"}

Pending(kind) == [kind |-> kind, state |-> "pending", outcome |-> "",
                  value |-> NULL]

\* a return statement of getPreviousGLQuotes: its promise is fulfilled
Return(p, me, r) ==
    callers' = [callers EXCEPT ![p] = [me EXCEPT !.pc = "returned",
                                                 !.outcome = "fulfilled",
                                                 !.result = r]]

\* without the catch of lines 424-427 the exception rejects the promise
OuterCatch_rethrows(p, me) ==
    callers' = [callers EXCEPT ![p] = [me EXCEPT !.pc = "returned",
                                                 !.outcome = "rejected",
                                                 !.result = NULL]]

\* lines 424-427: what is thrown inside the function is caught, null returned
OuterCatch(p, me) ==
    Return(p, me, NULL)

\* lines 412-420, up to the await of the text
LookUpFile(p, me, zipContent) ==
    IF zipContent = NULL
    THEN OuterCatch(p, me)              \* null has no property files
    ELSE IF zipContent[me.fileName] = NULL
         THEN Return(p, me, NULL)
         ELSE callers' = [callers EXCEPT
                             ![p] = [me EXCEPT !.pc = "awaitText",
                                               !.zipContent = zipContent]]

\* lines 350-410 up to the next await, c being the cache as the caller
\* finds it
FromZipUrl(p, me, c) ==
    IF c.zipUrl = NULL
    THEN /\ Return(p, me, NULL)
         /\ zipCache' = c
         /\ UNCHANGED promises
    ELSE IF c.zip # NULL
    THEN /\ LookUpFile(p, me, c.zip)
         /\ zipCache' = c
         /\ UNCHANGED promises
    ELSE IF c.zipPromise # NoPromise
    THEN /\ callers' = [callers EXCEPT
                           ![p] = [me EXCEPT !.pc = "awaitShared",
                                             !.awaits = c.zipPromise]]
         /\ zipCache' = c
         /\ UNCHANGED promises
    ELSE /\ promises' = Append(promises, Pending("download"))
         /\ zipCache' = [c EXCEPT !.zipPromise = Len(promises) + 1]
         /\ callers' = [callers EXCEPT
                           ![p] = [me EXCEPT !.pc = "awaitOwn",
                                             !.awaits = Len(promises) + 1]]

InitResolver ==
    /\ FunctionsOff
    /\ MainOff
    /\ callers = [p \in Callers |-> Idle]
    /\ promises = <<>>
    /\ zipCache = EmptyZipCache

\* lines 284-344 and on: a caller calls getPreviousGLQuotes, which runs to
\* its first await or to its return
Call(p) ==
    /\ callers[p].pc \in {"idle", "returned"}
    /\ callers[p].calls < MaxCalls
    /\ \E fileName \in ResolverFiles :
           LET me == [Idle EXCEPT !.fileName = fileName,
                                  !.calls = callers[p].calls + 1]
           IN  IF zipCache.zipUrl = NULL
               THEN IF zipCache.urlPromise # NoPromise
                    THEN /\ callers' = [callers EXCEPT
                                ![p] = [me EXCEPT
                                           !.pc = "awaitUrl",
                                           !.awaits = zipCache.urlPromise]]
                         /\ UNCHANGED <<promises, zipCache>>
                    ELSE /\ promises' = Append(promises, Pending("listing"))
                         /\ zipCache' = [zipCache EXCEPT
                                            !.urlPromise = Len(promises) + 1]
                         /\ callers' = [callers EXCEPT
                                ![p] = [me EXCEPT
                                           !.pc = "awaitUrl",
                                           !.awaits = Len(promises) + 1]]
               ELSE FromZipUrl(p, me, zipCache)
    /\ UNCHANGED <<fnVars, mainVars>>

\* lines 295-339: fetchArtifactZipUrl ends; whatever happens it resolves, to
\* the URL or to none
ListingSettles(l) ==
    /\ promises[l].kind = "listing"
    /\ promises[l].state = "pending"
    /\ \E outcome \in ListingOutcomes :
           promises' = [promises EXCEPT
                           ![l] = [kind |-> "listing", state |-> "fulfilled",
                                   outcome |-> outcome,
                                   value |-> IF outcome = "found"
                                             THEN ZIP_URL ELSE NULL]]
    /\ UNCHANGED <<callers, zipCache>>
    /\ UNCHANGED <<fnVars, mainVars>>

\* lines 344-410: the caller has its listing result
UrlResolved(p) ==
    /\ callers[p].pc = "awaitUrl"
    /\ promises[callers[p].awaits].state = "fulfilled"
    /\ FromZipUrl(p, callers[p],
                  [zipCache EXCEPT !.zipUrl = promises[callers[p].awaits].value,
                                   !.urlPromise = NoPromise])
    /\ UNCHANGED <<fnVars, mainVars>>

\* lines 374-401: the download and the loading of the archive end
DownloadSettles(d) ==
    /\ promises[d].kind = "download"
    /\ promises[d].state = "pending"
    /\ \E outcome \in DownloadOutcomes :
           /\ promises' = [promises EXCEPT
                  ![d] = [kind |-> "download",
                          state |-> IF outcome \in {"rejected", "notOk"}
                                    THEN "rejected" ELSE "fulfilled",
                          outcome |-> outcome,
                          value |-> IF outcome = "loaded"
                                    THEN ARCHIVE ELSE NULL]]
           /\ zipCache' =
                  IF outcome \in {"rejected", "notOk"}
                  THEN zipCache
                  ELSE IF outcome = "loaded"
                       THEN [zipCache EXCEPT !.zip = ARCHIVE,
                                             !.zipPromise = NoPromise]
                       ELSE [zipCache EXCEPT !.zipPromise = NoPromise]
    /\ UNCHANGED callers
    /\ UNCHANGED <<fnVars, mainVars>>

\* lines 363-370 and 412-420: the download another caller started has ended
SharedDownloadSettled(p) ==
    /\ callers[p].pc = "awaitShared"
    /\ promises[callers[p].awaits].state # "pending"
    /\ IF promises[callers[p].awaits].state = "rejected"
       THEN /\ zipCache' = [zipCache EXCEPT !.zipPromise = NoPromise]
            /\ Return(p, callers[p], NULL)
       ELSE /\ LookUpFile(p, callers[p], promises[callers[p].awaits].value)
            /\ UNCHANGED zipCache
    /\ UNCHANGED promises
    /\ UNCHANGED <<fnVars, mainVars>>

\* lines 403-409 and 412-420: the download the caller started has ended
OwnDownloadSettled(p) ==
    /\ callers[p].pc = "awaitOwn"
    /\ promises[callers[p].awaits].state # "pending"
    /\ IF promises[callers[p].awaits].state = "rejected"
       THEN /\ zipCache' = [zipCache EXCEPT !.zipPromise = NoPromise]
            /\ Return(p, callers[p], NULL)
       ELSE /\ LookUpFile(p, callers[p], promises[callers[p].awaits].value)
            /\ UNCHANGED zipCache
    /\ UNCHANGED promises
    /\ UNCHANGED <<fnVars, mainVars>>

\* lines 420-427: the text of the file is read from the archive, or not
TextRead(p) ==
    /\ callers[p].pc = "awaitText"
    /\ \E read \in BOOLEAN :
           IF read
           THEN Return(p, callers[p], callers[p].zipContent[callers[p].fileName])
           ELSE OuterCatch(p, callers[p])
    /\ UNCHANGED <<promises, zipCache>>
    /\ UNCHANGED <<fnVars, mainVars>>

NextResolver ==
    \/ \E p \in Callers : Call(p)
    \/ \E l \in 1..Len(promises) : ListingSettles(l)
    \/ \E p \in Callers : UrlResolved(p)
    \/ \E d \in 1..Len(promises) : DownloadSettles(d)
    \/ \E p \in Callers : SharedDownloadSettled(p)
    \/ \E p \in Callers : OwnDownloadSettled(p)
    \/ \E p \in Callers : TextRead(p)

SpecResolver == InitResolver /\ [][NextResolver]_vars

(***************************************************************************)
(* The two comparisons of rows, lines 577-592 and makeRowKey, applied to   *)
(* the same pairs of files                                                 *)
(***************************************************************************)
\* headers with the four key columns, without Reference, without Occurrence
IdentityHeaders ==
    {HeaderGL("Quote"),
     <<Col("ID"), Col("Quote"), Col("Occurrence"), Col("GLQuote"),
       Col("GLOccurrence")>>,
     <<Col("Reference"), Col("ID"), Col("Quote"), Col("GLQuote"),
       Col("GLOccurrence")>>}

\* rows: full ones that differ in one key field, one with empty quote and
\* Occurrence, and one that ends after the ID
IdentityRows ==
    {<<<<"1:1">>, <<"a">>, <<"q">>, <<"1">>, <<"g">>, <<"1">>>>,
     <<<<"1:1">>, <<"a">>, <<"q">>, <<"0">>, <<"g">>, <<"1">>>>,
     <<<<"1:1">>, <<"b">>, <<"q">>, <<"1">>, <<"g">>, <<"1">>>>,
     <<<<"1:1">>, <<"a">>, <<>>, <<>>, <<"g">>, <<"1">>>>,
     <<<<"1:1">>, <<"a">>>>,
     <<<<"a">>, <<"q">>, <<"1">>, <<"g">>, <<"1">>>>}

IdentityFiles == {ToTSV(<<h, r>>) : h \in IdentityHeaders, r \in IdentityRows}

InitIdentity ==
    /\ fn = "none"
    /\ fnIn \in IdentityFiles
    /\ fnArg = NULL
    /\ fnOut = NULL
    /\ MainOff
    /\ ResolverOff

\* the pairs (row of fnIn, row of the other file) that lines 573-596 match,
\* and the pairs whose keys mergePartialBack finds equal (lines 736-752)
CallIdentity ==
    /\ fn = "none"
    /\ fn' = "identity"
    /\ \E other \in IdentityFiles :
           LET left == ParseTSV(fnIn)
               right == ParseTSV(other)
               cur == getIndexBundle(left[1])
               prev == getIndexBundle(right[1])
               pairs == {p \in (2..Len(left)) \X (2..Len(right)) :
                            Len(left[p[1]]) > 1 /\ Len(right[p[2]]) > 1}
           IN  /\ fnArg' = other
               /\ fnOut' =
                      [byFields |-> {p \in pairs :
                                        rowsMatch(left[p[1]], right[p[2]],
                                                  cur, prev)},
                       byKeys |-> {p \in pairs :
                                      makeRowKey(left[p[1]], cur) =
                                          makeRowKey(right[p[2]], prev)}]
    /\ UNCHANGED fnIn
    /\ UNCHANGED <<mainVars, resVars>>

NextIdentity ==
    \/ CallIdentity

SpecIdentity == InitIdentity /\ [][NextIdentity]_vars

(***************************************************************************)
(* buildPartialTSVForMissing applied on its own, also to files of more     *)
(* rows than it keeps descriptors                                          *)
(***************************************************************************)
\* the rows of the longest file
MaxLongRows == 13

\* files of MaxDescriptors rows and more; the third row has its GLQuote, the
\* others lack it
LongFiles ==
    {ToTSV(<<HeaderGL("Quote")>>
           \o [k \in 1..n |->
                  <<<<"1:1">>, <<ToString(k)>>, <<"q">>, <<"1">>,
                    IF k = 3 THEN <<"g">> ELSE <<>>,
                    IF k = 3 THEN <<"1">> ELSE <<>>>>]) :
        n \in MaxDescriptors..MaxLongRows}

InitPartial ==
    /\ fn = "none"
    /\ fnIn \in FilesGL \cup FilesPlain \cup LongFiles
    /\ fnArg = NULL
    /\ fnOut = NULL
    /\ MainOff
    /\ ResolverOff

\* lines 683-723
CallBuildPartial ==
    /\ fn = "none"
    /\ fn' = "buildPartialTSVForMissing"
    /\ fnOut' = buildPartialTSVForMissing(fnIn)
    /\ UNCHANGED <<fnIn, fnArg>>
    /\ UNCHANGED <<mainVars, resVars>>

NextPartial ==
    \/ CallBuildPartial

SpecPartial == InitPartial /\ [][NextPartial]_vars

(***************************************************************************)
(* The insertion of the two derived columns: the merge with a previous     *)
(* file and addEmptyGLQuoteColumns applied to files with a column after    *)
(* Occurrence, with Occurrence last and without Occurrence, whose rows may *)
(* be shorter or longer than the header                                    *)
(***************************************************************************)
HeaderNote == <<Col("Reference"), Col("ID"), Col("Quote"), Col("Occurrence"),
                Col("Note")>>

ColumnHeaders ==
    {HeaderNote, HeaderPlain("Quote"),
     <<Col("Reference"), Col("ID"), Col("Quote"), Col("Note")>>}

\* full rows, a row that ends at Occurrence, one that ends before it, a line
\* of one word and the blank line
ColumnRows ==
    {<<<<"1:1">>, <<"a">>, <<"q">>, <<"1">>, <<"n">>>>,
     <<<<"1:1">>, <<"b">>, <<"q">>, <<"1">>, <<"n">>>>,
     <<<<"1:1">>, <<"a">>, <<"q">>, <<"0">>, <<"n">>>>,
     <<<<"1:1">>, <<"a">>, <<"q">>, <<"1">>>>,
     <<<<"1:1">>, <<"a">>>>,
     <<<<"x">>>>,
     << <<>> >>}

ColumnFiles == Files(ColumnHeaders, ColumnRows, ColumnRows)

\* previous files with both derived columns: a key twice with different
\* values, a key with empty values, a file with the Note column
ColumnPreviousFiles ==
    {ToTSV(<<HeaderGL("Quote"),
             <<<<"1:1">>, <<"a">>, <<"q">>, <<"1">>, <<"p">>, <<"1">>>>,
             <<<<"1:1">>, <<"a">>, <<"q">>, <<"1">>, <<"r">>, <<"2">>>>>>),
     ToTSV(<<HeaderGL("Quote"),
             <<<<"1:1">>, <<"a">>, <<"q">>, <<"1">>, <<>>, <<>>>>,
             <<<<"1:1">>, <<"b">>, <<"q">>, <<"1">>, <<"p">>, <<"1">>>>>>),
     ToTSV(<<<<Col("Reference"), Col("ID"), Col("Quote"), Col("Occurrence"),
               Col("GLQuote"), Col("GLOccurrence"), Col("Note")>>,
             <<<<"1:1">>, <<"a">>, <<"q">>, <<"0">>, <<"p">>, <<"1">>, <<"m">>>>,
             <<<<"1:1">>, <<"a">>>>,
             << <<>> >>>>)}

InitColumns ==
    /\ fn = "none"
    /\ fnIn \in ColumnFiles \cup FilesPlain
    /\ fnArg = NULL
    /\ fnOut = NULL
    /\ MainOff
    /\ ResolverOff

\* lines 499-641: mergePreviousGLQuotes when getPreviousGLQuotes resolved to
\* the text of a previous file that has both derived columns
CallMergeColumns ==
    /\ fn = "none"
    /\ fn' = "mergePreviousGLQuotes"
    /\ \E previousContent \in ColumnPreviousFiles :
           /\ fnArg' = previousContent
           /\ fnOut' = mergeWithPrevious(fnIn, previousContent)
    /\ UNCHANGED fnIn
    /\ UNCHANGED <<mainVars, resVars>>

\* lines 765-796
CallAddEmptyColumns ==
    /\ fn = "none"
    /\ fn' = "addEmptyGLQuoteColumns"
    /\ fnOut' = addEmptyGLQuoteColumns(fnIn)
    /\ UNCHANGED <<fnIn, fnArg>>
    /\ UNCHANGED <<mainVars, resVars>>

NextColumns ==
    \/ CallMergeColumns
    \/ CallAddEmptyColumns

SpecColumns == InitColumns /\ [][NextColumns]_vars

(***************************************************************************)
(* fetchArtifactZipUrl: the choice among the artifacts that the listing    *)
(* returned                                                                *)
(***************************************************************************)
\* the longest listing
MaxArtifacts == 3

SUFFIX == "_with_gl_quotes.zip"

\* the creation times of the listing and what Date.parse makes of them, in
\* seconds (Date.parse counts milliseconds; the order is the same)
DateTexts == {"2024-01-01T00:00:00Z", "2024-06-01T00:00:00Z"}

DateParse(text) ==
    IF text = "2024-01-01T00:00:00Z" THEN 1704067200 ELSE 1717200000

\* Date.parse(0), of an artifact without created_at and created: the text "0"
\* is no ISO date, so the result is left to the engine: NaN, or the first day
\* of the year 2000
ParsesOfZero == {0, 946684800}

\* an artifact of the listing; a field that may be absent or of another type
\* says so
Artifact(name, url, expired, id, created) ==
    [name |-> name, archive_download_url |-> url, expired |-> expired,
     id |-> id, created_at |-> created]

Number(n) == [isNumber |-> TRUE, value |-> n]
NoNumber == [isNumber |-> FALSE, value |-> 0]
Created(text) == [present |-> TRUE, text |-> text]
NoCreated == [present |-> FALSE, text |-> ""]

UrlOf(id, created) == <<"https://qa.door43.org/artifacts/", id, created>>

\* the artifacts a listing is made of: those that pass the filter, with the
\* id 1, 2 or none and either creation time or none, and three of a higher id
\* that do not pass it (another name, no download URL, expired)
ListedArtifacts ==
    {Artifact(<<"tn", SUFFIX>>, UrlOf(id, c), FALSE, id, c) :
        id \in {Number(1), Number(2), NoNumber},
        c \in {Created(t) : t \in DateTexts} \cup {NoCreated}}
    \cup {Artifact(<<"tn", SUFFIX, ".bak">>,
                   UrlOf(Number(3), Created("2024-06-01T00:00:00Z")), FALSE,
                   Number(3), Created("2024-06-01T00:00:00Z")),
          Artifact(<<"tn", SUFFIX>>, NULL, FALSE,
                   Number(3), Created("2024-06-01T00:00:00Z")),
          Artifact(<<"tn", SUFFIX>>,
                   UrlOf(Number(3), Created("2024-06-01T00:00:00Z")), TRUE,
                   Number(3), Created("2024-06-01T00:00:00Z"))}

\* mutation: expired artifacts pass the filter
isCandidate_expiredToo(a) ==
    /\ Len(a.name) > 0
    /\ a.name[Len(a.name)] = SUFFIX
    /\ a.archive_download_url # NULL

\* lines 306-311: the filter
isCandidate(a) ==
    /\ Len(a.name) > 0
    /\ a.name[Len(a.name)] = SUFFIX
    /\ a.archive_download_url # NULL
    /\ a.expired = FALSE

\* lines 314-315: typeof a.id === 'number' ? a.id : -1
idOrMinusOne(a) == IF a.id.isNumber THEN a.id.value ELSE -1

\* lines 318-319: Date.parse(a.created_at || a.created || 0) || 0
createdOrZero(a, parseOfZero) ==
    IF a.created_at.present THEN DateParse(a.created_at.text) ELSE parseOfZero

\* lines 317-320: the artifact kept of two that have the same id
laterOf(best, cur, parseOfZero) ==
    IF createdOrZero(cur, parseOfZero) > createdOrZero(best, parseOfZero)
    THEN cur ELSE best

\* the null that reduce starts from and that is returned as meta
NoMatch == [none |-> TRUE]

\* lines 312-321: candidates.reduce from the artifact at position k on
RECURSIVE reduceBest(_, _, _, _)
reduceBest(candidates, k, best, parseOfZero) ==
    IF k > Len(candidates) THEN best
    ELSE LET cur == candidates[k]
             next == IF best = NoMatch THEN cur
                     ELSE IF idOrMinusOne(cur) # idOrMinusOne(best)
                          THEN (IF idOrMinusOne(cur) > idOrMinusOne(best)
                                THEN cur ELSE best)
                          ELSE laterOf(best, cur, parseOfZero)
         IN  reduceBest(candidates, k + 1, next, parseOfZero)

\* lines 295-339, for a listing that was received and parsed
fetchArtifactZipUrl(artifacts, parseOfZero) ==
    LET candidates == SelectSeq(artifacts, isCandidate)
        match == reduceBest(candidates, 1, NoMatch, parseOfZero)
    IN  [url |-> IF match = NoMatch THEN NULL ELSE match.archive_download_url,
         meta |-> match]

InitArtifacts ==
    /\ fn = "none"
    /\ fnIn \in SeqsUpTo(ListedArtifacts, MaxArtifacts)
    /\ fnArg = NULL
    /\ fnOut = NULL
    /\ MainOff
    /\ ResolverOff

CallFetchArtifactZipUrl ==
    /\ fn = "none"
    /\ fn' = "fetchArtifactZipUrl"
    /\ \E parseOfZero \in ParsesOfZero :
           fnOut' = fetchArtifactZipUrl(fnIn, parseOfZero)
    /\ UNCHANGED <<fnIn, fnArg>>
    /\ UNCHANGED <<mainVars, resVars>>

NextArtifacts ==
    \/ CallFetchArtifactZipUrl

SpecArtifacts == InitArtifacts /\ [][NextArtifacts]_vars

(***************************************************************************)
(* Claims                                                                  *)
(***************************************************************************)
\* the field of row i under the column called name, '' when the row or the
\* header has none
FieldOf(rows, i, name) ==
    LET k == IndexOf(rows[1], Col(name))
    IN  IF k >= 0 /\ k < Len(rows[i]) /\ rows[i][k + 1] # UNDEF
        THEN rows[i][k + 1] ELSE <<>>

\* the quote field: Quote, else OrigQuote, else OrigWords
QuoteFieldOf(rows, i) ==
    IF Col("Quote") \in {rows[1][k] : k \in 1..Len(rows[1])}
    THEN FieldOf(rows, i, "Quote")
    ELSE IF Col("OrigQuote") \in {rows[1][k] : k \in 1..Len(rows[1])}
         THEN FieldOf(rows, i, "OrigQuote")
         ELSE FieldOf(rows, i, "OrigWords")

DataRowsOf(rows) == {i \in 2..Len(rows) : Len(rows[i]) > 1}

IsBlank(f) == \A k \in 1..Len(f) : f[k] = SP
Contains(f, tok) == \E k \in 1..Len(f) : f[k] = tok

\* the selection predicate as the claims word it: empty means '', and the
\* sentinel means the field is exactly QUOTE_NOT_FOUND
SelectedAsWorded(rows, i) ==
    /\ QuoteFieldOf(rows, i) # <<>>
    /\ FieldOf(rows, i, "Occurrence") # <<>>
    /\ FieldOf(rows, i, "Occurrence") # <<"0">>
    /\ \/ FieldOf(rows, i, "GLQuote") = <<>>
       \/ FieldOf(rows, i, "GLQuote") = <<QNF>>
       \/ QuoteFieldOf(rows, i) = <<QNF>>

\* the same with empty read as blank (nothing but white space) and the
\* sentinel read as contained in the field
Selected(rows, i) ==
    /\ ~IsBlank(QuoteFieldOf(rows, i))
    /\ ~IsBlank(FieldOf(rows, i, "Occurrence"))
    /\ FieldOf(rows, i, "Occurrence") # <<"0">>
    /\ \/ IsBlank(FieldOf(rows, i, "GLQuote"))
       \/ Contains(FieldOf(rows, i, "GLQuote"), QNF)
       \/ Contains(QuoteFieldOf(rows, i), QNF)

MergeReturned ==
    /\ fn = "mergePreviousGLQuotes"
    /\ fnOut.kind = "object"
    /\ IndexOf(ParseTSV(fnOut.output)[1], Col("GLQuote")) >= 0

\* C1 as worded: the missing count of mergePreviousGLQuotes counts a data row
\* iff its quote field is not '', its Occurrence is neither '' nor "0", and its
\* GLQuote is '' or equal to QUOTE_NOT_FOUND or its quote field is equal to
\* QUOTE_NOT_FOUND.
C1_CountAsWorded ==
    MergeReturned =>
        LET rows == ParseTSV(fnOut.output)
        IN  fnOut.missingCount =
                Cardinality({i \in DataRowsOf(rows) : SelectedAsWorded(rows, i)})

\* C1 (amended): the missing count of mergePreviousGLQuotes counts a data row
\* iff its quote field is not blank, its Occurrence is not blank and not "0",
\* and its GLQuote is blank or contains QUOTE_NOT_FOUND or its quote field
\* contains QUOTE_NOT_FOUND.
C1_MissingCount ==
    MergeReturned =>
        LET rows == ParseTSV(fnOut.output)
        IN  fnOut.missingCount =
                Cardinality({i \in DataRowsOf(rows) : Selected(rows, i)})

\* a file already holding the columns, and a merged one, each with a row that
\* counts only because its quote field holds the sentinel, and a row that does
\* not count
C1_Witness ==
    /\ MergeReturned
    /\ fnOut.missingCount = 1
    /\ LET rows == ParseTSV(fnOut.output)
       IN  /\ \E i \in DataRowsOf(rows) :
                  /\ Contains(QuoteFieldOf(rows, i), QNF)
                  /\ FieldOf(rows, i, "GLQuote") = <<"g">>
                  /\ Selected(rows, i)
           /\ \E i \in DataRowsOf(rows) : ~Selected(rows, i)

\* C2: on one file, the rows mergePreviousGLQuotes counts as missing, the rows
\* buildPartialTSVForMissing selects and the rows the recount of main counts
\* are the same rows.
C2_SameSelection ==
    fn = "selection" =>
        /\ fnOut.missingCount = Len(ParseTSV(fnOut.partialTSV)) - 1
        /\ fnOut.missingCount = fnOut.missingAfter

\* the identity of row i: its Reference, ID, quote field and Occurrence
IdentityOf(rows, i) ==
    <<FieldOf(rows, i, "Reference"), FieldOf(rows, i, "ID"),
      QuoteFieldOf(rows, i), FieldOf(rows, i, "Occurrence")>>

\* the identities of the rows of a partial result (rows of one field have none)
IdentitiesOf(rows) == {IdentityOf(rows, j) : j \in DataRowsOf(rows)}

SameDerived(before, after, i) ==
    /\ FieldOf(after, i, "GLQuote") = FieldOf(before, i, "GLQuote")
    /\ FieldOf(after, i, "GLOccurrence") = FieldOf(before, i, "GLOccurrence")

\* C4: mergePartialBack leaves GLQuote and GLOccurrence of every row whose
\* identity is absent from the partial result as they were.
C4_PartialOverwrite ==
    fn = "mergePartialBack" =>
        LET before == ParseTSV(fnIn)
            after == ParseTSV(fnOut)
            part == ParseTSV(fnArg)
        IN  /\ Len(after) = Len(before)
            /\ \A i \in DataRowsOf(before) :
                   IdentityOf(before, i) \notin IdentitiesOf(part)
                       => SameDerived(before, after, i)

\* mergePartialBack overwrote one row and another row, holding a value and of an
\* identity the partial result lacks, kept it
C4_Witness ==
    /\ fn = "mergePartialBack"
    /\ LET before == ParseTSV(fnIn)
           after == ParseTSV(fnOut)
           part == ParseTSV(fnArg)
       IN  /\ \E i \in DataRowsOf(before) :
                  /\ IdentityOf(before, i) \in IdentitiesOf(part)
                  /\ ~SameDerived(before, after, i)
           /\ \E i \in DataRowsOf(before) :
                  /\ IdentityOf(before, i) \notin IdentitiesOf(part)
                  /\ FieldOf(before, i, "GLQuote") = <<"g">>
                  /\ FieldOf(after, i, "GLQuote") = <<"g">>

\* C5: partial regeneration (buildPartialTSVForMissing, the computation call,
\* mergePartialBack) leaves GLQuote and GLOccurrence of every row that was not
\* selected as they were, whatever the collaborator returned.
C5_UnselectedUntouched ==
    fn = "partialRegeneration" =>
        LET before == ParseTSV(fnIn)
            after == ParseTSV(fnOut)
            partial == ParseTSV(buildPartialTSVForMissing(fnIn).partialTSV)
            selected == {partial[j] : j \in 2..Len(partial)}
        IN  \A i \in DataRowsOf(before) :
                before[i] \notin selected => SameDerived(before, after, i)

\* the entries of the log that are computation calls for a file
CallsOf(f) ==
    {k \in 1..Len(log) : log[k].type = "call" /\ log[k].file = f}

\* the place of a file in the list of the run
FileIndex(f) == CHOOSE i \in 1..Len(tsvFiles) : FileName(i) = f

\* no summary line follows entry k of the log: merged is still what
\* mergePreviousGLQuotes returned for the file of that entry
NoSummaryAfter(k) == \A j \in (k + 1)..Len(log) : log[j].type # "summary"

\* C3: for a file that already has GLQuote and GLOccurrence, the summary line
\* of main reports as to-generate the number of data rows the selection
\* predicate selects, and as total the number of rows of more than one field,
\* the header row among them.
C3_SummaryCounts ==
    \A k \in 1..Len(log) :
        (log[k].type = "summary"
         /\ hasGLColumns(tsvFiles[FileIndex(log[k].file)])) =>
            LET rows == ParseTSV(tsvFiles[FileIndex(log[k].file)])
            IN  /\ log[k].toGenerate =
                       Cardinality({i \in DataRowsOf(rows) : Selected(rows, i)})
                /\ log[k].total =
                       Cardinality({i \in 1..Len(rows) : Len(rows[i]) > 1})

\* a summary line of a file with an OrigWords column: two rows to generate, one
\* for its empty GLQuote and one for the sentinel in OrigWords, of three rows
C3_Witness ==
    \E k \in 1..Len(log) :
        /\ log[k].type = "summary"
        /\ log[k].toGenerate = 2
        /\ log[k].total = 3
        /\ LET rows == ParseTSV(tsvFiles[FileIndex(log[k].file)])
           IN  /\ IndexOf(rows[1], Col("OrigWords")) >= 0
               /\ IndexOf(rows[1], Col("GLQuote")) >= 0
               /\ \E i \in DataRowsOf(rows) :
                      /\ FieldOf(rows, i, "OrigWords") = <<QNF>>
                      /\ FieldOf(rows, i, "GLQuote") = <<"g">>

\* the partial call of entry k returned
PartialReturned(k) ==
    /\ log[k].type = "return"
    /\ log[k].kind = "partial"
    /\ log[k].ok

\* the content main went on with after entry k: what it wrote, or what it
\* handed to the full-file call
ContentAfter(k) ==
    IF log[k + 1].type = "call" THEN log[k + 1].tsvContent ELSE log[k + 1].output

\* C6: when the partial call returned and the recount over the content merged
\* back finds no missing row, main writes that content and makes no full-file
\* call for the file.
C6_PartialCompleteSkipsFull ==
    \A k \in 1..(Len(log) - 1) :
        PartialReturned(k) =>
            /\ NoSummaryAfter(k) =>
                   ContentAfter(k) = mergePartialBack(merged.output, log[k].output)
            /\ missingAfterOf(ContentAfter(k)) = 0 =>
                   /\ log[k + 1].type \in {"write", "zipEntry"}
                   /\ log[k + 1].file = log[k].file
                   /\ \A j \in k..Len(log) : j \notin CallsOf(log[k].file)

\* a finished run in which a partial call closed every gap of a file, whose
\* merged content was written
C6_Witness ==
    /\ pc = "done"
    /\ \E k \in 1..(Len(log) - 1) :
           /\ PartialReturned(k)
           /\ log[k + 1].type = "write"
           /\ missingAfterOf(log[k + 1].output) = 0
           /\ log[k + 1].output # tsvFiles[FileIndex(log[k].file)]
           /\ Cardinality(CallsOf(log[k].file)) = 1

\* C7: main makes the partial call only for a file of which some but not all
\* data rows are missing.
C7_PartialOnlyWhenSomeMissing ==
    pc = "partial" =>
        /\ merged.missingCount > 0
        /\ merged.missingCount < Cardinality(DataRowsOf(ParseTSV(tsvContent)))

\* C8: with regenerate-all, main makes no listing or download request, runs no
\* merge and no partial regeneration, and makes for every file one computation
\* call, the full-file one, on the file as read from disk.
C8_RegenerateAll ==
    argv.regenerateAll =>
        /\ \A k \in 1..Len(log) : log[k].type \notin {"list", "download", "summary"}
        /\ cache = EmptyCache
        /\ merged = NULL
        /\ \A k \in 1..Len(log) :
               log[k].type = "call" =>
                   /\ log[k].kind = "full"
                   /\ log[k].tsvContent = tsvFiles[FileIndex(log[k].file)]
        /\ \A i \in 1..Len(tsvFiles) :
               Cardinality(CallsOf(FileName(i))) =
                   IF i < fileNo \/ (i = fileNo /\ pc \in {"full", "exit1"})
                   THEN 1 ELSE 0

\* a finished regenerate-all run over two files, the first of which has nothing
\* missing: two full-file calls
C8_Witness ==
    /\ argv.regenerateAll
    /\ pc = "done"
    /\ Len(tsvFiles) = 2
    /\ mergeExisting(tsvFiles[1]).missingCount = 0
    /\ \A i \in 1..2 : Cardinality(CallsOf(FileName(i))) = 1

\* C9: when mergePreviousGLQuotes reports missingCount 0 for a file, main makes
\* no computation call for it, and what it emits for it is the merged content.
C9_NothingMissingNoCall ==
    \A k \in 1..Len(log) :
        (log[k].type = "summary" /\ log[k].toGenerate = 0) =>
            /\ CallsOf(log[k].file) = {}
            /\ (NoSummaryAfter(k) /\ ~argv.summaryOnly) =>
                   LET emitted == {j \in (k + 1)..Len(log) :
                                      /\ log[j].type \in {"write", "zipEntry"}
                                      /\ log[j].file = log[k].file}
                   IN  /\ merged.missingCount = 0
                       /\ k + 1 \in emitted
                       /\ \A j \in emitted : log[j].output = merged.output
                       /\ argv.zip => \E j \in emitted : log[j].type = "zipEntry"
                       /\ (~argv.zip \/ argv.tsv) =>
                              \E j \in emitted : log[j].type = "write"

\* a finished run over a file without the derived columns that the previous
\* artifact covers: rows reused, nothing to generate, the merged content written
C9_Witness ==
    /\ pc = "done"
    /\ \E k \in 1..(Len(log) - 1) :
           /\ log[k].type = "summary"
           /\ log[k].toGenerate = 0
           /\ log[k].hits = 2
           /\ NoSummaryAfter(k)
           /\ log[k + 1].type = "write"
           /\ log[k + 1].output = merged.output
           /\ log[k + 1].output # tsvFiles[FileIndex(log[k].file)]
           /\ CallsOf(log[k].file) = {}

\* every data row carries a GLQuote that is not '' and is not equal to
\* QUOTE_NOT_FOUND
CompleteAsWorded(content) ==
    /\ hasGLColumns(content)
    /\ LET rows == ParseTSV(content)
       IN  \A i \in DataRowsOf(rows) :
               /\ FieldOf(rows, i, "GLQuote") # <<>>
               /\ FieldOf(rows, i, "GLQuote") # <<QNF>>

\* every data row carries a GLQuote that is not blank and does not contain
\* QUOTE_NOT_FOUND, and its quote field does not contain QUOTE_NOT_FOUND
Complete(content) ==
    /\ hasGLColumns(content)
    /\ LET rows == ParseTSV(content)
       IN  \A i \in DataRowsOf(rows) :
               /\ ~IsBlank(FieldOf(rows, i, "GLQuote"))
               /\ ~Contains(FieldOf(rows, i, "GLQuote"), QNF)
               /\ ~Contains(QuoteFieldOf(rows, i), QNF)

\* missingCount is 0, buildPartialTSVForMissing selects no row and main has made
\* no computation call for file i
NothingComputed(i) ==
    /\ mergeExisting(tsvFiles[i]).missingCount = 0
    /\ Len(ParseTSV(buildPartialTSVForMissing(tsvFiles[i]).partialTSV)) = 1
    /\ CallsOf(FileName(i)) = {}

\* C10 as worded: in a run without regenerate-all, for a file every data row
\* of which carries a GLQuote that is not '' and not equal to QUOTE_NOT_FOUND,
\* missingCount is 0, buildPartialTSVForMissing selects no row and main makes
\* no computation call.
C10_AsWorded ==
    ~argv.regenerateAll =>
        \A i \in 1..Len(tsvFiles) :
            CompleteAsWorded(tsvFiles[i]) => NothingComputed(i)

\* C10 (amended): in a run without regenerate-all, for a file every data row of
\* which carries a GLQuote that is not blank and does not contain
\* QUOTE_NOT_FOUND, and a quote field that does not contain QUOTE_NOT_FOUND,
\* missingCount is 0, buildPartialTSVForMissing selects no row and main makes
\* no computation call, whatever Occurrence holds.
C10_NoComputation ==
    ~argv.regenerateAll =>
        \A i \in 1..Len(tsvFiles) :
            Complete(tsvFiles[i]) => NothingComputed(i)

\* a finished run over one such file, with a row whose Occurrence is "0", that
\* was written as it was read
C10_Witness ==
    /\ pc = "done"
    /\ ~argv.regenerateAll
    /\ Len(tsvFiles) = 1
    /\ Complete(tsvFiles[1])
    /\ \E i \in DataRowsOf(ParseTSV(tsvFiles[1])) :
           FieldOf(ParseTSV(tsvFiles[1]), i, "Occurrence") = <<"0">>
    /\ \E k \in 1..Len(log) :
           log[k].type = "write" /\ log[k].output = tsvFiles[1]
    /\ NothingComputed(1)

\* entry k of the log is a computation call of the kind that failed
Failed(k, kind) ==
    /\ log[k].type = "return"
    /\ log[k].kind = kind
    /\ ~log[k].ok

\* C11: when the partial call fails, what follows is the full-file call for the
\* same file, on the merged content as it was before the partial call.
C11_PartialFailureFallsBack ==
    \A k \in 1..Len(log) :
        Failed(k, "partial") =>
            /\ k < Len(log)
            /\ log[k + 1].type = "call"
            /\ log[k + 1].kind = "full"
            /\ log[k + 1].file = log[k].file
            /\ NoSummaryAfter(k) => log[k + 1].tsvContent = merged.output

\* a partial call on some of the rows of a file failed and the full-file call
\* on the whole merged content is under way
C11_Witness ==
    /\ pc = "full"
    /\ Len(log) >= 3
    /\ Failed(Len(log) - 1, "partial")
    /\ log[Len(log) - 2].type = "call"
    /\ log[Len(log) - 2].kind = "partial"
    /\ log[Len(log) - 2].tsvContent # merged.output
    /\ log[Len(log)].tsvContent = merged.output

\* C12: with exit-on-error off, after the full-file call failed main emits an
\* output for the file in which every data row has, under the headers GLQuote
\* and GLOccurrence, the values it had before the fallback.
C12_FallbackPreserves ==
    ~argv.exitOnError =>
        \A k \in 1..Len(log) :
            (/\ Failed(k, "full")
             /\ pc = "file"
             /\ \A j \in (k + 1)..Len(log) : log[j].type \in {"write", "zipEntry"}) =>
                /\ k < Len(log)
                /\ log[k + 1].file = log[k].file
                /\ LET before == ParseTSV(tsvContent)
                       after == ParseTSV(log[k + 1].output)
                   IN  /\ Len(after) = Len(before)
                       /\ \A i \in DataRowsOf(before) :
                              SameDerived(before, after, i)

\* C13: with exit-on-error off, main does not end while files of the run are
\* still to be processed, whatever failed in the files before them.
C13_EveryFileAttempted ==
    (~argv.exitOnError /\ ~argv.summaryOnly) =>
        (pc = "exit1" => fileNo >= Len(tsvFiles))

\* the entries of the log that name a file
FileEntries ==
    {j \in 1..Len(log) :
        log[j].type \in {"summary", "call", "return", "write", "zipEntry"}}

\* C14: with exit-on-error set, when the full-file call fails main appends
\* {file, error} to the error list, writes the error log with the whole list
\* and exits with code 1: nothing of a later file is in the log, and no zip
\* file is written.
C14_ExitOnError ==
    argv.exitOnError =>
        \A k \in 1..Len(log) :
            Failed(k, "full") =>
                /\ pc = "exit1"
                /\ Len(log) = k + 2
                /\ errors # <<>>
                /\ errors[Len(errors)].file = log[k].file
                /\ log[k + 1] = [type |-> "errorLog", errors |-> errors]
                /\ log[k + 2] = [type |-> "exit", code |-> 1]
                /\ \A j \in 1..Len(log) : log[j].type # "zipWrite"
                /\ \A j \in FileEntries :
                       FileIndex(log[j].file) <= FileIndex(log[k].file)

\* a run with --zip and exit-on-error over two files that ended at the failure
\* of the full-file call of the first
C14_Witness ==
    /\ argv.exitOnError
    /\ argv.zip
    /\ pc = "exit1"
    /\ Len(tsvFiles) = 2
    /\ fileNo = 1
    /\ Len(log) >= 3
    /\ Failed(Len(log) - 2, "full")
    /\ log[Len(log) - 1].type = "errorLog"

\* the computation calls of the run that failed
FailedCalls == {k \in 1..Len(log) : log[k].type = "return" /\ ~log[k].ok}

\* C15: every failed computation call, partial or full, has its {file, error}
\* entry in the error list; with exit-on-error the first one ends the run; the
\* error log of a finished run has an entry for each.
C15_EveryFailureCollected ==
    /\ Len(errors) = Cardinality(FailedCalls)
    /\ \A k \in FailedCalls :
           \E e \in 1..Len(errors) : errors[e].file = log[k].file
    /\ argv.exitOnError =>
           \A k \in FailedCalls : pc = "exit1" /\ Len(log) <= k + 2
    /\ (pc = "done" /\ FailedCalls # {}) =>
           \E j \in 1..Len(log) :
               /\ log[j].type = "errorLog"
               /\ Len(log[j].errors) = Cardinality(FailedCalls)

\* C16: when main ends through process.exit(1), the error log it wrote last
\* holds every entry the error list had gathered from the files before.
C16_AccumulatedErrorsWritten ==
    (pc = "exit1" /\ errors # <<>>) =>
        \E j \in 1..Len(log) :
            /\ log[j].type = "errorLog"
            /\ \A i \in (j + 1)..Len(log) : log[i].type # "errorLog"
            /\ \A e \in 1..Len(errors) :
                   \E x \in 1..Len(log[j].errors) : log[j].errors[x] = errors[e]

\* mergePreviousGLQuotes met a format failure on file f: the file has no
\* Occurrence column, or the previous file has no derived columns
FormatFailure(f) ==
    LET current == tsvFiles[FileIndex(f)]
    IN  /\ ~hasGLColumns(current)
        /\ \/ IndexOf(ParseTSV(current)[1], Col("Occurrence")) = -1
           \/ /\ cache.zip # NULL
              /\ cache.zip[f] # NULL
              /\ ~hasGLColumns(cache.zip[f])

\* C17: after a format failure mergePreviousGLQuotes reports every data row of
\* the file as missing, and main goes on to a computation call for the file.
C17_FormatFailureRecovered ==
    \A k \in 1..Len(log) :
        (log[k].type = "summary" /\ FormatFailure(log[k].file)) =>
            /\ log[k].toGenerate =
                   Cardinality(DataRowsOf(ParseTSV(tsvFiles[FileIndex(log[k].file)])))
            /\ ~argv.summaryOnly =>
                   /\ k < Len(log)
                   /\ log[k + 1].type = "call"
                   /\ log[k + 1].file = log[k].file


\* C19: in one run the artifact-listing request is issued at most once; the
\* calls that follow the first reuse its result, also when it found no archive
\* or failed.
ListingRequests == {k \in 1..Len(log) : log[k].type = "list"}

C19_ListingAtMostOnce ==
    Cardinality(ListingRequests) <= 1


\* the callers whose call has returned
Returned == {p \in Callers : callers[p].pc = "returned"}

\* the operation a returned call awaited last ended without an archive: the
\* listing was rejected, not OK or without a matching artifact, the download
\* was rejected, not OK, not a zip or not loadable
EndedWithout(p) ==
    /\ callers[p].awaits # NoPromise
    /\ \/ /\ promises[callers[p].awaits].kind = "listing"
          /\ promises[callers[p].awaits].outcome # "found"
       \/ /\ promises[callers[p].awaits].kind = "download"
          /\ promises[callers[p].awaits].outcome # "loaded"

\* C18: getPreviousGLQuotes never rejects. Every call that has returned has
\* resolved, to null or to the text of its file in the archive; it resolved to
\* null when the listing or the download it awaited failed in any way (fetch
\* rejected, status not OK, no artifact, payload not starting with PK, archive
\* not loadable) and when the archive has no such file; as long as no download
\* has loaded an archive the cached archive stays unset.
C18_NeverRejects ==
    /\ \A p \in Returned :
           /\ callers[p].outcome = "fulfilled"
           /\ callers[p].result \in {NULL, ARCHIVE[callers[p].fileName]}
           /\ EndedWithout(p) => callers[p].result = NULL
           /\ ARCHIVE[callers[p].fileName] = NULL => callers[p].result = NULL
    /\ (\A d \in 1..Len(promises) : promises[d].outcome # "loaded")
           => zipCache.zip = NULL

\* a call has returned null after the payload of its download was not a zip,
\* and the cached archive is unset
C18_Witness ==
    /\ \E p \in Returned :
           /\ callers[p].awaits # NoPromise
           /\ promises[callers[p].awaits].outcome = "notZip"
           /\ callers[p].outcome = "fulfilled"
           /\ callers[p].result = NULL
    /\ zipCache.zip = NULL


\* the download requests that have been sent and have not ended
InFlight ==
    {d \in 1..Len(promises) : /\ promises[d].kind = "download"
                              /\ promises[d].state = "pending"}

\* C20: however the concurrent calls interleave at their awaits, at no time
\* are two download requests for the archive in flight.
C20_OneDownloadInFlight ==
    Cardinality(InFlight) <= 1


\* the downloads that have loaded an archive and assigned it to cache.zip
Populations == {d \in 1..Len(promises) : promises[d].outcome = "loaded"}

\* C21: the cache is populated at most once in a run: once an archive has
\* been loaded and stored in cache.zip, no other archive is stored in its
\* place.
C21_PopulatedAtMostOnce ==
    Cardinality(Populations) <= 1


\* mergePreviousGLQuotes has been applied to a current file without derived
\* columns and a previous file that was found
MergedWithPrevious ==
    /\ fn = "mergePreviousGLQuotes"
    /\ ~hasGLColumns(fnIn)
    /\ fnArg \notin {NULL, <<>>}

\* no data row of the current file has the identity of a data row of the
\* previous file
DisjointKeys ==
    IdentitiesOf(ParseTSV(fnIn)) \cap IdentitiesOf(ParseTSV(fnArg)) = {}

\* the eligible rows as worded: quote field not '', Occurrence neither '' nor "0"
EligibleAsWorded(rows) ==
    {i \in DataRowsOf(rows) : /\ QuoteFieldOf(rows, i) # <<>>
                              /\ FieldOf(rows, i, "Occurrence") # <<>>
                              /\ FieldOf(rows, i, "Occurrence") # <<"0">>}

\* the same with empty read as blank
Eligible(rows) ==
    {i \in DataRowsOf(rows) : /\ ~IsBlank(QuoteFieldOf(rows, i))
                              /\ ~IsBlank(FieldOf(rows, i, "Occurrence"))
                              /\ FieldOf(rows, i, "Occurrence") # <<"0">>}

MergedWithoutPrevious ==
    /\ fn = "mergePreviousGLQuotes"
    /\ ~hasGLColumns(fnIn)
    /\ fnArg \in {NULL, <<>>}

SameButOccurrence(rows, i, other, j) ==
    /\ FieldOf(rows, i, "Reference") = FieldOf(other, j, "Reference")
    /\ FieldOf(rows, i, "ID") = FieldOf(other, j, "ID")
    /\ QuoteFieldOf(rows, i) = QuoteFieldOf(other, j)

\* row i of after holds the derived values of row j of other
DerivedFrom(after, i, other, j) ==
    /\ FieldOf(after, i, "GLQuote") = FieldOf(other, j, "GLQuote")
    /\ FieldOf(after, i, "GLOccurrence") = FieldOf(other, j, "GLOccurrence")

\* C24: in mergePreviousGLQuotes and in mergePartialBack a row receives derived
\* values only from a row of the other dataset that has its Reference, ID and
\* quote and also its Occurrence; a row that differs from it in Occurrence
\* gives it nothing.
C24_OccurrenceSensitive ==
    /\ (MergedWithPrevious /\ hasGLColumns(fnArg) /\ fnOut.kind = "object") =>
           LET cur == ParseTSV(fnIn)
               prev == ParseTSV(fnArg)
               out == ParseTSV(fnOut.output)
           IN  \A i \in DataRowsOf(cur) :
                   (\/ FieldOf(out, i, "GLQuote") # <<>>
                    \/ FieldOf(out, i, "GLOccurrence") # <<>>) =>
                       \E j \in DataRowsOf(prev) :
                           /\ SameButOccurrence(cur, i, prev, j)
                           /\ FieldOf(cur, i, "Occurrence") =
                                  FieldOf(prev, j, "Occurrence")
                           /\ DerivedFrom(out, i, prev, j)
    /\ fn \in {"mergePartialBack", "partialRegeneration"} =>
           LET before == ParseTSV(fnIn)
               part == ParseTSV(fnArg)
               after == ParseTSV(fnOut)
           IN  \A i \in DataRowsOf(before) :
                   ~SameDerived(before, after, i) =>
                       \E j \in DataRowsOf(part) :
                           /\ SameButOccurrence(before, i, part, j)
                           /\ FieldOf(before, i, "Occurrence") =
                                  FieldOf(part, j, "Occurrence")
                           /\ DerivedFrom(after, i, part, j)

\* mergePartialBack was given a row that has the Reference, ID and quote of a
\* row without GLQuote, another Occurrence and a computed value: the row is as
\* it was
C24_Witness ==
    /\ fn = "mergePartialBack"
    /\ LET before == ParseTSV(fnIn)
           part == ParseTSV(fnArg)
           after == ParseTSV(fnOut)
       IN  \E i \in DataRowsOf(before) : \E j \in DataRowsOf(part) :
               /\ SameButOccurrence(before, i, part, j)
               /\ FieldOf(before, i, "Occurrence") = <<"1">>
               /\ FieldOf(part, j, "Occurrence") = <<"0">>
               /\ FieldOf(part, j, "GLQuote") = <<"G">>
               /\ FieldOf(before, i, "GLQuote") = <<>>
               /\ FieldOf(after, i, "GLQuote") = <<>>


\* the pairs of rows whose Reference, ID, quote and Occurrence are equal
ByValues ==
    LET left == ParseTSV(fnIn)
        right == ParseTSV(fnArg)
    IN  {p \in DataRowsOf(left) \X DataRowsOf(right) :
            IdentityOf(left, p[1]) = IdentityOf(right, p[2])}

\* C25: the comparison of mergePreviousGLQuotes and the key equality of
\* mergePartialBack match the same pairs of rows, those whose Reference, ID,
\* quote and Occurrence are equal, whatever the two headers and the lengths of
\* the rows.
C25_SameIdentityRelation ==
    fn = "identity" =>
        /\ fnOut.byFields = fnOut.byKeys
        /\ fnOut.byKeys = ByValues


\* the first data row of other, in file order, that has the identity of row i
\* of rows; 0 when there is none
FirstWithIdentity(rows, i, other) ==
    LET hits == {j \in DataRowsOf(other) :
                    IdentityOf(other, j) = IdentityOf(rows, i)}
    IN  IF hits = {} THEN 0 ELSE CHOOSE j \in hits : \A k \in hits : j <= k

\* C26: when the dataset looked up holds several rows of one identity, the
\* row that matches is given the derived values of the first of them in file
\* order, in mergePreviousGLQuotes and in mergePartialBack.
C26_FirstMatchWins ==
    /\ (MergedWithPrevious /\ hasGLColumns(fnArg) /\ fnOut.kind = "object") =>
           LET cur == ParseTSV(fnIn)
               prev == ParseTSV(fnArg)
               out == ParseTSV(fnOut.output)
           IN  \A i \in DataRowsOf(cur) :
                   FirstWithIdentity(cur, i, prev) # 0 =>
                       DerivedFrom(out, i, prev, FirstWithIdentity(cur, i, prev))
    /\ fn = "mergePartialBack" =>
           LET before == ParseTSV(fnIn)
               part == ParseTSV(fnArg)
               after == ParseTSV(fnOut)
           IN  \A i \in DataRowsOf(before) :
                   FirstWithIdentity(before, i, part) # 0 =>
                       DerivedFrom(after, i, part,
                                   FirstWithIdentity(before, i, part))


\* the summaries k1 and k2 are those of two calls of mergePreviousGLQuotes
\* with the same content, the first made when the archive was downloaded and
\* the second served from the cached archive, which holds the same previous
\* text for both
SameCallTwice(k1, k2) ==
    /\ k1 < k2
    /\ log[k1].type = "summary"
    /\ log[k2].type = "summary"
    /\ tsvFiles[FileIndex(log[k1].file)] = tsvFiles[FileIndex(log[k2].file)]
    /\ ~hasGLColumns(tsvFiles[FileIndex(log[k1].file)])
    /\ cache.zip # NULL
    /\ cache.zip[log[k1].file] = cache.zip[log[k2].file]
    /\ \E d \in 1..(k1 - 1) :
           /\ log[d].type = "download"
           /\ \A e \in 1..Len(log) : log[e].type = "download" => e = d

\* C27: two calls of mergePreviousGLQuotes in one process with the same
\* current content and the same previous artifact, the second served from the
\* populated cache, return the same output, missingCount, matchedCount and
\* totalDataRows.
C27_SameResultTwice ==
    \A k1 \in 1..Len(log) : \A k2 \in 1..Len(log) :
        SameCallTwice(k1, k2) =>
            /\ log[k2].output = log[k1].output
            /\ log[k2].toGenerate = log[k1].toGenerate
            /\ log[k2].hits = log[k1].hits
            /\ log[k2].total = log[k1].total

\* the two calls both matched a row of the previous file
C27_Witness ==
    \E k1 \in 1..Len(log) : \E k2 \in 1..Len(log) :
        /\ SameCallTwice(k1, k2)
        /\ log[k1].hits = 1
        /\ log[k2].hits = 1
        /\ cache.zip[log[k1].file] # NULL


\* the entries of a type that the log holds for a file
EntriesOf(type, f) ==
    {k \in 1..Len(log) : log[k].type = type /\ log[k].file = f}

\* the files main has finished with and gone past
FinishedFiles == {FileName(i) : i \in 1..Min(fileNo - 1, Len(tsvFiles))}

\* the branch in which main finished a file: "none" (no row missing or
\* nothing to merge), "partial" (the partial call completed the file), "full"
\* (the full-file call or the fallback)
FinishingBranch(f) ==
    IF \E k \in EntriesOf("call", f) : log[k].kind = "full" THEN "full"
    ELSE IF EntriesOf("call", f) # {} THEN "partial"
    ELSE "none"

ZipWrites == {k \in 1..Len(log) : log[k].type = "zipWrite"}

\* C28: for every file main has finished, in whichever branch, the TSV file
\* was written once iff --zip is off or --tsv is on, and a zip entry was added
\* once iff --zip is on; the archive is written once, after the output of
\* the last file, iff --zip is on.
C28_OutputModes ==
    /\ \A f \in FinishedFiles :
           /\ Cardinality(EntriesOf("write", f)) =
                  IF ~argv.zip \/ argv.tsv THEN 1 ELSE 0
           /\ Cardinality(EntriesOf("zipEntry", f)) = IF argv.zip THEN 1 ELSE 0
    /\ Cardinality(ZipWrites) <= 1
    /\ \A k \in ZipWrites :
           /\ argv.zip
           /\ fileNo > Len(tsvFiles)
           /\ \A j \in 1..Len(log) :
                  log[j].type \in {"write", "zipEntry"} => j < k
    /\ pc = "done" => (ZipWrites # {} <=> argv.zip)

\* a run with --zip and without --tsv has ended: one file was finished by the
\* partial call and one by the full-file call, neither was written as TSV, both
\* are in the archive
C28_Witness ==
    /\ pc = "done"
    /\ argv.zip
    /\ ~argv.tsv
    /\ Len(tsvFiles) = 2
    /\ {FinishingBranch(f) : f \in FinishedFiles} = {"partial", "full"}
    /\ \A f \in FinishedFiles : EntriesOf("write", f) = {}
    /\ ZipWrites # {}


\* the files main has begun to process: it called the collaborator for them,
\* reported on them or put them out
ProcessedFiles ==
    {log[k].file : k \in {j \in 1..Len(log) :
                             log[j].type \in {"summary", "call", "return",
                                              "write", "zipEntry"}}}

\* C29: for every file main processes, in every branch and also with
\* regenerate-all, exactly one summary line is emitted, and it comes before
\* every computation call for the file.
C29_OneSummaryFirst ==
    \A f \in ProcessedFiles :
        /\ Cardinality(EntriesOf("summary", f)) = 1
        /\ \A s \in EntriesOf("summary", f) : \A k \in EntriesOf("call", f) :
               s < k


\* the rows buildPartialTSVForMissing chooses from: those of the file, with
\* the two derived columns added when the file lacks them
PartialSource ==
    ParseTSV(IF hasGLColumns(fnIn) THEN fnIn ELSE addEmptyGLQuoteColumns(fnIn))

\* the selection predicate as buildPartialTSVForMissing has it: an eligible
\* row without a usable GLQuote, or a row whose quote field contains the
\* sentinel
SelectedForPartial(rows, i) ==
    \/ Selected(rows, i)
    \/ Contains(QuoteFieldOf(rows, i), QNF)

\* the lines of the source, in order, that the partial row set must hold
ExpectedPartial ==
    LET src == PartialSource
    IN  SelectRows(src, [i \in 1..Len(src) |->
                            \/ i = 1
                            \/ (i \in DataRowsOf(src) /\ SelectedForPartial(src, i))])

LastWithIdentity(rows, i, other) ==
    LET hits == {j \in DataRowsOf(other) :
                    IdentityOf(other, j) = IdentityOf(rows, i)}
    IN  IF hits = {} THEN 0 ELSE CHOOSE j \in hits : \A k \in hits : k <= j

\* the positions (0-based) of the two derived columns in a header
DerivedColumns(headers) ==
    {IndexOf(headers, Col("GLQuote")), IndexOf(headers, Col("GLOccurrence"))}

\* mergePartialBack left the number and order of the rows, the header, the
\* rows of at most one field and every field outside the derived columns as
\* they were; a field a row ends before counts as empty
FrameKept(before, after) ==
    /\ Len(after) = Len(before)
    /\ after[1] = before[1]
    /\ \A i \in 2..Len(before) :
           /\ Len(before[i]) <= 1 => after[i] = before[i]
           /\ Len(after[i]) >= Len(before[i])
           /\ \A c \in 0..(Len(after[i]) - 1) :
                  c \notin DerivedColumns(before[1]) =>
                      OrEmpty(At(after[i], c)) = OrEmpty(At(before[i], c))

EmptyTo(row, n) ==
    [c \in 1..(IF Len(row) < n THEN n ELSE Len(row)) |->
        IF c <= Len(row) THEN row[c] ELSE <<>>]

\* a row that reaches column k (0-based) with a and b put right after it
InsertedAfter(row, k, a, b) ==
    [c \in 1..(Len(row) + 2) |->
        IF c <= k + 1 THEN row[c]
        ELSE IF c = k + 2 THEN a
        ELSE IF c = k + 3 THEN b
        ELSE row[c - 2]]

\* mergePreviousGLQuotes merged a file that has an Occurrence column and no
\* derived column with a previous file that has both derived columns
MergedColumns ==
    /\ MergedWithPrevious
    /\ hasGLColumns(fnArg)
    /\ IndexOf(ParseTSV(fnIn)[1], Col("Occurrence")) >= 0
    /\ IndexOf(ParseTSV(fnIn)[1], Col("GLQuote")) = -1
    /\ IndexOf(ParseTSV(fnIn)[1], Col("GLOccurrence")) = -1

SummaryOfDerived(k) ==
    /\ log[k].type = "summary"
    /\ LET headers == ParseTSV(tsvFiles[FileIndex(log[k].file)])[1]
       IN  /\ IndexOf(headers, Col("GLQuote")) >= 0
           /\ IndexOf(headers, Col("GLOccurrence")) >= 0

\* the entries main logged since it began the file of the summary at k: those
\* after the last entry of another file
SinceFileBegan(k) ==
    {j \in 1..(k - 1) :
        \A e \in j..(k - 1) :
            "file" \in DOMAIN log[e] => log[e].file = log[k].file}

\* C33: for a file that has both GLQuote and GLOccurrence columns,
\* mergePreviousGLQuotes requests no listing and no download, returns the
\* content of the file as output and reports matchedCount 0.
C33_DerivedColumnsSkipLookup ==
    \A k \in 1..Len(log) :
        SummaryOfDerived(k) =>
            /\ \A j \in SinceFileBegan(k) :
                   log[j].type \notin {"list", "download"}
            /\ log[k].output = tsvFiles[FileIndex(log[k].file)]
            /\ log[k].hits = 0

\* the second file of a run has the two columns and came after a file for which
\* the listing and the download were requested; the location is known and the
\* archive is cached, and nothing was requested for the second file
C33_Witness ==
    \E k \in 1..Len(log) :
        /\ SummaryOfDerived(k)
        /\ FileIndex(log[k].file) = 2
        /\ cache.zip # NULL
        /\ \E j \in 1..(k - 1) : log[j].type = "download"
        /\ log[k - 1].type \in {"write", "zipEntry"}

\* the header of the output is that of the input with GLQuote and GLOccurrence
\* right after Occurrence (column k, 0-based), and as many rows follow it
HeaderGained(cur, out, k) ==
    /\ Len(out) = Len(cur)
    /\ out[1] = InsertedAfter(cur[1], k, Col("GLQuote"), Col("GLOccurrence"))

\* every eligible row of the output satisfies the selection predicate, with
\* empty read as '' and as blank
EligibleSelected(out) ==
    /\ \A i \in Eligible(out) : Selected(out, i)
    /\ \A i \in EligibleAsWorded(out) : SelectedAsWorded(out, i)

\* C34 as worded: with Occurrence at index k, addEmptyGLQuoteColumns puts
\* GLQuote at k+1 and GLOccurrence at k+2 in the header, two empty fields at
\* k+1 and k+2 in every row of more than one field, fills every row of at most
\* one field up to the header length, keeps the number of rows and the
\* original fields in order, and leaves every eligible row selected; without
\* an Occurrence column it returns the content unchanged.
C34_AsWorded ==
    fn = "addEmptyGLQuoteColumns" =>
        LET cur == ParseTSV(fnIn)
            out == ParseTSV(fnOut)
            k == IndexOf(cur[1], Col("Occurrence"))
        IN  IF k = -1 THEN fnOut = fnIn
            ELSE /\ HeaderGained(cur, out, k)
                 /\ EligibleSelected(out)
                 /\ \A i \in 2..Len(cur) :
                        IF Len(cur[i]) <= 1
                        THEN out[i] = EmptyTo(cur[i], Len(out[1]))
                        ELSE /\ Len(out[i]) = Len(cur[i]) + 2
                             /\ At(out[i], k + 1) = <<>>
                             /\ At(out[i], k + 2) = <<>>
                             /\ \A c \in 0..(Len(cur[i]) - 1) :
                                    At(cur[i], c) =
                                        At(out[i], IF c <= k THEN c ELSE c + 2)

\* C34 (amended): the same, the two empty fields being at k+1 and k+2 in every
\* row of more than k fields and at the end of a row of more than one and at
\* most k fields.
C34_AddEmptyColumns ==
    fn = "addEmptyGLQuoteColumns" =>
        LET cur == ParseTSV(fnIn)
            out == ParseTSV(fnOut)
            k == IndexOf(cur[1], Col("Occurrence"))
        IN  IF k = -1 THEN fnOut = fnIn
            ELSE /\ HeaderGained(cur, out, k)
                 /\ EligibleSelected(out)
                 /\ \A i \in 2..Len(cur) :
                        out[i] =
                            IF Len(cur[i]) <= 1
                            THEN EmptyTo(cur[i], Len(out[1]))
                            ELSE IF Len(cur[i]) > k
                            THEN InsertedAfter(cur[i], k, <<>>, <<>>)
                            ELSE cur[i] \o << <<>>, <<>> >>

\* a file with a Note column: its full row has the two empty fields in front
\* of its Note and is selected, its row of two fields has them at its end
C34_Witness ==
    /\ fn = "addEmptyGLQuoteColumns"
    /\ ParseTSV(fnIn)[1] = HeaderNote
    /\ Len(ParseTSV(fnOut)) = 3
    /\ ParseTSV(fnOut)[2] =
           <<<<"1:1">>, <<"a">>, <<"q">>, <<"1">>, <<>>, <<>>, <<"n">>>>
    /\ Selected(ParseTSV(fnOut), 2)
    /\ ParseTSV(fnOut)[3] = <<<<"1:1">>, <<"a">>, <<>>, <<>>>>

\* the listed artifacts that are not expired, have a download URL and a name
\* that ends in _with_gl_quotes.zip
Passing ==
    {a \in {fnIn[k] : k \in 1..Len(fnIn)} :
        /\ a.expired = FALSE
        /\ a.archive_download_url # NULL
        /\ \E k \in 1..Len(a.name) : k = Len(a.name) /\ a.name[k] = SUFFIX}

\* C35: the artifact chosen by fetchArtifactZipUrl is one of the listed
\* artifacts that pass the filter (not expired, download URL, name ending in
\* _with_gl_quotes.zip); no artifact that passes has a higher numeric id, and
\* none of the same id has a later creation time; when no listed artifact
\* passes, no URL is returned.
C35_ArtifactChosen ==
    fn = "fetchArtifactZipUrl" =>
        IF Passing = {} THEN fnOut.url = NULL
        ELSE \E a \in Passing :
                 /\ fnOut.meta = a
                 /\ fnOut.url = a.archive_download_url
                 /\ \A b \in Passing :
                        b.id.isNumber =>
                            a.id.isNumber /\ a.id.value >= b.id.value
                 /\ \A b \in Passing :
                        (b.id = a.id /\ b.created_at.present) =>
                            /\ a.created_at.present
                            /\ DateParse(a.created_at.text) >=
                                   DateParse(b.created_at.text)

\* the listing holds an expired artifact of id 3 and then two artifacts of id
\* 2 that pass, the later one first: its URL is returned
C35_Witness ==
    /\ fn = "fetchArtifactZipUrl"
    /\ Len(fnIn) = 3
    /\ fnIn[1].id = Number(3) /\ fnIn[1].expired
    /\ fnIn[2] \in Passing /\ fnIn[2].id = Number(2)
    /\ fnIn[2].created_at = Created("2024-06-01T00:00:00Z")
    /\ fnIn[3] \in Passing /\ fnIn[3].id = Number(2)
    /\ fnIn[3].created_at = Created("2024-01-01T00:00:00Z")
    /\ fnOut.url = fnIn[2].archive_download_url

\* the writes of the error log in the run
ErrorLogWrites == {k \in 1..Len(log) : log[k].type = "errorLog"}

\* C36: no error log is written for an empty error list; a run that ended
\* normally wrote the error log exactly once if an error was recorded and not
\* at all otherwise; every run, also one that ended in the strict-mode abort
\* or in the fatal abort, wrote it at most once.
C36_ErrorLogOnce ==
    /\ \A k \in ErrorLogWrites : log[k].errors # <<>>
    /\ Cardinality(ErrorLogWrites) <= 1
    /\ pc = "done" =>
           Cardinality(ErrorLogWrites) = IF errors # <<>> THEN 1 ELSE 0

\* a run over two files ended normally after the full-file calls of both had
\* failed: the one error log holds both entries
C36_Witness ==
    /\ pc = "done"
    /\ Len(errors) = 2
    /\ \E k \in ErrorLogWrites : log[k].errors = errors
    /\ Cardinality(FailedCalls) >= 2

\* the content holds a row that the recount of main counts as missing: a
\* selected row, or a row whose quote field holds the sentinel
RowsLeftMissing(content) ==
    \E i \in DataRowsOf(ParseTSV(content)) :
        SelectedForPartial(ParseTSV(content), i)

CallsOfKind(f, kind) == {k \in CallsOf(f) : log[k].kind = kind}

\* C37: for every file main makes at most one partial call and at most one
\* full-file call, the partial one first; when it makes both, the partial call
\* failed or left rows missing in the content handed to the full-file call;
\* no call for a file comes after an output of the file.
C37_CallsPerFile ==
    \A f \in {FileName(i) : i \in 1..Len(tsvFiles)} :
        /\ Cardinality(CallsOfKind(f, "partial")) <= 1
        /\ Cardinality(CallsOfKind(f, "full")) <= 1
        /\ \A p \in CallsOfKind(f, "partial") : \A q \in CallsOfKind(f, "full") :
               /\ q = p + 2
               /\ log[p + 1].type = "return"
               /\ log[p + 1].kind = "partial"
               /\ log[p + 1].file = f
               /\ (~log[p + 1].ok \/ RowsLeftMissing(log[q].tsvContent))
        /\ \A k \in CallsOf(f) :
           \A j \in EntriesOf("write", f) \cup EntriesOf("zipEntry", f) : k < j

\* a finished run: for its first file the partial call returned and left a row
\* missing, the full-file call followed and the file was put out after it
C37_Witness ==
    /\ pc = "done"
    /\ \E p \in CallsOfKind(FileName(1), "partial") :
       \E q \in CallsOfKind(FileName(1), "full") :
           /\ log[p + 1].ok
           /\ RowsLeftMissing(log[q].tsvContent)
           /\ \E j \in EntriesOf("write", FileName(1)) : q < j

\* C38: in the result of mergePreviousGLQuotes no data row is counted both as
\* a cache hit and as to generate: matchedCount + missingCount is at most the
\* number of data rows of the file.
C38_HitsAndMissesDisjoint ==
    (fn = "mergePreviousGLQuotes" /\ fnOut.kind = "object"
        /\ fnOut.matchedCount # NoCount) =>
        fnOut.matchedCount + fnOut.missingCount
            <= Cardinality(DataRowsOf(ParseTSV(fnIn)))


\* main has ended: after the loop, or by process.exit
Terminated == pc \in {"done", "exit0", "exit1"}

\* the entries of one type the log holds for a file
OutputsOf(type, file) ==
    {i \in 1..Len(log) : log[i].type = type /\ log[i].file = file}

\* every input file was written exactly once to each enabled output
EveryFileEmittedOnce ==
    \A f \in 1..Len(tsvFiles) :
        /\ shouldWriteTsv => Cardinality(OutputsOf("write", FileName(f))) = 1
        /\ shouldCreateZip => Cardinality(OutputsOf("zipEntry", FileName(f))) = 1

\* C39: with exit-on-error off (and outside the summary-only mode), once main
\* has terminated every input file has been emitted exactly once to each
\* enabled output (TSV file, zip entry).  Every step of main ends at an await
\* or at its end, so a run whose awaited calls all settle reaches this state.
C39_AllEmittedAtTermination ==
    (Terminated /\ ~argv.exitOnError /\ ~argv.summaryOnly) =>
        EveryFileEmittedOnce


=============================================================================
